---- MODULE Spec2Model ----
(***************************************************************************)
(* ForestSathi wildfire risk engine (src/app_flask.py).                    *)
(*                                                                         *)
(* Conventions of the model                                                *)
(*   - Python None / pandas NaN / NaT are the empty tuple <<>>; a present  *)
(*     optional value v is <<v>>.                                          *)
(*   - A float that is an average or a ratio is kept exact, as the pair    *)
(*     <<numerator, denominator>> with denominator > 0; NaN is <<>>.       *)
(*   - Coordinates are integers in units of 0.05 degree, so the 0.25       *)
(*     degree grid cell is 5 units (division by 0.25 is exact on floats,   *)
(*     and no modelled radius puts an event exactly on a box edge).        *)
(*   - Risk scores are integers in units of 10^-6, the heuristic score in  *)
(*     units of 10^-4 (hundredths times a seasonal factor in hundredths).  *)
(***************************************************************************)
EXTENDS Integers, Sequences, FiniteSets, TLC

VARIABLES fire_data, location_stats_cache, heatmap_data, model, encoder,
          status, op, inp, requests

vars == <<fire_data, location_stats_cache, heatmap_data, model, encoder,
          status, op, inp, requests>>

(***************************************************************************)
(* Bounds of the model.                                                    *)
(***************************************************************************)
\* Longest archive file (rows of the CSV) that load_resources is given.
MaxRows == 2
\* Longest archive of the history specification: one row more than the
\* recent-events preview holds.
MaxHistoryRows == 6

(***************************************************************************)
(* Generic helpers.                                                        *)
(***************************************************************************)
None == <<>>
Some(x) == <<x>>

Abs(x) == IF x < 0 THEN -x ELSE x
Min2(a, b) == IF a < b THEN a ELSE b
Max2(a, b) == IF a > b THEN a ELSE b

\* Python int(x) / numpy astype(int) of a quotient: truncation toward zero.
TruncDiv(a, b) == IF a >= 0 THEN a \div b ELSE -((-a) \div b)

Range(s) == {s[i] : i \in DOMAIN s}

RECURSIVE SumSeq(_)
SumSeq(s) == IF s = <<>> THEN 0 ELSE Head(s) + SumSeq(Tail(s))

SetMax(S) == CHOOSE x \in S : \A y \in S : y <= x
SetMin(S) == CHOOSE x \in S : \A y \in S : x <= y

\* Exact comparison of a model float <<n, d>> with the number t / k;
\* every comparison with NaN is false, as in Python.
GtFrac(x, t, k) == x # <<>> /\ x[1] * k > t * x[2]
Gt(x, t) == GtFrac(x, t, 1)

\* Units of the coordinate grid per degree (0.05 degree units).
UnitsPerDegree == 4 * 5
\* The 0.25 degree cell resolution (lines 87-88, 268-269) in coordinate units.
GridUnits == UnitsPerDegree \div 4

(***************************************************************************)
(* The archive: rows of forestsathi_training_data.csv as read_csv gives    *)
(* them.  Every field is optional (an empty CSV field is NaN).             *)
(***************************************************************************)
Row(la, lo, b, f, d, c) ==
    [latitude |-> la, longitude |-> lo, brightness |-> b, frp |-> f,
     acq_date |-> d, likely_cause |-> c]

Agricultural == "Agricultural Residue Burning"
PineNeedles == "Dry Pine Needle Accumulation"

\* Cause labels in the sorted order Series.mode() returns them in.
CauseOrder == <<Agricultural, PineNeedles, "Unknown">>
CauseRank(c) == CHOOSE i \in DOMAIN CauseOrder : CauseOrder[i] = c

\* The rows an archive file is made of (dates are <<year, month, day>>).
Rows ==
    { Row(<<546>>, <<1681>>, <<350>>, <<8>>, <<<<2020, 4, 10>>>>, <<Agricultural>>),
      Row(<<549>>, <<1683>>, <<330>>, <<>>, <<>>, <<>>),
      Row(<<549>>, <<1683>>, <<340>>, <<8>>, <<>>, <<PineNeedles>>),
      Row(<<552>>, <<1687>>, <<340>>, <<16>>, <<<<2021, 3, 5>>>>, <<PineNeedles>>),
      Row(<<-3>>, <<1>>, <<350>>, <<8>>, <<<<2021, 4, 1>>>>, <<Agricultural>>),
      Row(<<546>>, <<1681>>, <<>>, <<8>>, <<<<2020, 4, 11>>>>, <<Agricultural>>),
      Row(<<>>, <<1681>>, <<350>>, <<8>>, <<<<2020, 4, 12>>>>, <<Agricultural>>) }

RECURSIVE SeqsUpTo(_, _)
SeqsUpTo(S, n) ==
    IF n = 0 THEN {<<>>}
    ELSE LET shorter == SeqsUpTo(S, n - 1)
         IN  shorter \cup {Append(s, x) : s \in shorter, x \in S}

\* The archive files load_resources may find: None when DATA_FILE is absent.
ArchiveFiles == {None} \cup {Some(f) : f \in SeqsUpTo(Rows, MaxRows)}

\* model.pkl: absent, or the binary RandomForest of train_model.py.
ModelFiles == {None, Some("RandomForestClassifier")}

Terai == "Terai Plains"
Hills == "Mahabharat Range (Hills)"
Himalaya == "High Himalayas"
EcologicalZones == {Terai, Hills, Himalaya}

\* encoder.pkl: absent, or a LabelEncoder given by the set of its classes_.
EncoderFiles == {None, Some(EcologicalZones)}

(***************************************************************************)
(* load_resources: dropna, date parsing, derived year and month.           *)
(***************************************************************************)
\* fire_data.dropna(subset=['latitude', 'longitude', 'brightness'])
DropNa(rows) ==
    SelectSeq(rows, LAMBDA r : r.latitude # <<>> /\ r.longitude # <<>>
                               /\ r.brightness # <<>>)

\* One row of fire_data after lines 35-40 and 87-88: required fields are
\* plain numbers, year/month derive from acq_date (NaN when it is NaT).
Event(r) ==
    [latitude |-> r.latitude[1], longitude |-> r.longitude[1],
     brightness |-> r.brightness[1], frp |-> r.frp,
     acq_date |-> r.acq_date,
     year |-> IF r.acq_date = <<>> THEN <<>> ELSE <<r.acq_date[1][1]>>,
     month |-> IF r.acq_date = <<>> THEN <<>> ELSE <<r.acq_date[1][2]>>,
     likely_cause |-> r.likely_cause,
     grid_lat |-> TruncDiv(r.latitude[1], GridUnits) * GridUnits,
     grid_lon |-> TruncDiv(r.longitude[1], GridUnits) * GridUnits]

ParseArchive(file) ==
    LET kept == DropNa(file) IN [i \in DOMAIN kept |-> Event(kept[i])]

(***************************************************************************)
(* Aggregates of a group of events (pandas mean/max/nunique/mode).         *)
(***************************************************************************)
Present(s) == SelectSeq(s, LAMBDA x : x # <<>>)
Unwrap(s) == [i \in DOMAIN s |-> s[i][1]]
Column(evs, f) == [i \in DOMAIN evs |-> evs[i][f]]

\* Series.mean() of a column without NaN.
MeanOf(xs) == IF xs = <<>> THEN <<>> ELSE <<SumSeq(xs), Len(xs)>>
\* Series.max() of a column without NaN.
MaxOf(xs) == IF xs = <<>> THEN <<>> ELSE <<SetMax(Range(xs)), 1>>
\* mean / max skip NaN; the result is NaN when every value is NaN.
NanMean(col) == MeanOf(Unwrap(Present(col)))
NanMax(col) == MaxOf(Unwrap(Present(col)))
\* Series.nunique(): distinct values, NaN not counted.
NUnique(col) == Cardinality(Range(Present(col)))

CountOf(col, c) == Len(SelectSeq(col, LAMBDA x : x = c))

\* Series.mode(): the most frequent non-NaN values, sorted; empty when all NaN.
ModeSeries(col) ==
    LET labels == Range(Present(col))
        best == {c \in labels : \A d \in labels : CountOf(col, d) <= CountOf(col, c)}
    IN  best
\* Mutant of ModeFirst: the last of the sorted modes.
ModeFirstLargest(col) ==
    LET best == ModeSeries(col)
    IN  (CHOOSE c \in best : \A d \in best : CauseRank(d[1]) <= CauseRank(c[1]))[1]

\* x.mode().iloc[0]: the first of the sorted modes.
ModeFirst(col) ==
    LET best == ModeSeries(col)
    IN  (CHOOSE c \in best : \A d \in best : CauseRank(c[1]) <= CauseRank(d[1]))[1]
\* iloc[0] on an empty Series raises IndexError.
ModeRaises(col) == ModeSeries(col) = {}

(***************************************************************************)
(* precompute_location_statistics: the grid index.                         *)
(***************************************************************************)
\* The digits str() prints after the point for the float |u| / 20: the
\* shortest form, one digit at least ("84.0", "27.25", "27.5").
FractionDigits(u) ==
    LET h == (Abs(u) % UnitsPerDegree) * 5
    IN  IF h % 10 = 0 THEN <<h \div 10>> ELSE <<h \div 10, h % 10>>

\* Series.astype(str) on the float column: str() of each value.
AsTypeStr(u) ==
    [sign |-> IF u < 0 THEN "-" ELSE "", whole |-> Abs(u) \div UnitsPerDegree,
     point |-> ".", digits |-> FractionDigits(u)]

\* The grid key "<grid_lat>_<grid_lon>": the two texts around the underscore.
KeyOf(e) == <<AsTypeStr(e.grid_lat), AsTypeStr(e.grid_lon)>>

GroupOf(evs, k) == SelectSeq(evs, LAMBDA e : KeyOf(e) = k)

GridKeys(evs) == {KeyOf(evs[i]) : i \in DOMAIN evs}

\* One entry of location_stats_cache (std_brightness, which no query reads,
\* is left out).
GridCell(g) ==
    [avg_brightness |-> MeanOf(Column(g, "brightness")),
     max_brightness |-> MaxOf(Column(g, "brightness")),
     fire_count |-> Len(g),
     avg_frp |-> NanMean(Column(g, "frp")),
     max_frp |-> NanMax(Column(g, "frp")),
     years_with_fires |-> NUnique(Column(g, "year")),
     primary_cause |-> ModeFirst(Column(g, "likely_cause"))]

\* The likely_cause lambda of line 98 raises when a group has no label at all.
PrecomputeRaises(evs) ==
    \E k \in GridKeys(evs) : ModeRaises(Column(GroupOf(evs, k), "likely_cause"))

PrecomputeLocationStatistics(evs) ==
    [k \in GridKeys(evs) |-> GridCell(GroupOf(evs, k))]

(***************************************************************************)
(* Heatmap intensities.                                                    *)
(***************************************************************************)
\* round(x, 2) of a non-negative ratio, NaN staying NaN.
Round2(x) == IF x = <<>> THEN <<>> ELSE <<(200 * x[1] + x[2]) \div (2 * x[2]), 100>>

\* numpy division: 0 / 0 is NaN (a warning, no exception).
NpDivide(n, d) == IF d = 0 THEN <<>> ELSE <<n, d>>

HeatPoint(e, lo, range) ==
    [lat |-> e.latitude, lng |-> e.longitude,
     intensity |-> Round2(NpDivide(e.brightness - lo, range))]

\* Lines 42-57: the archive-wide sample (every row while the archive is below
\* the 15000 cap), normalised by max - min with no guard for max = min.
\* The sample's seeded shuffle is not modelled: points keep archive order.
LoadHeatmap(evs) ==
    IF evs = <<>> THEN <<>>
    ELSE LET bs == Range(Column(evs, "brightness"))
             lo == SetMin(bs)
             hi == SetMax(bs)
         IN  [i \in DOMAIN evs |-> HeatPoint(evs[i], lo, hi - lo)]

(***************************************************************************)
(* State.                                                                  *)
(***************************************************************************)
EmptyDict == [k \in {} |-> 0]

\* The record of the last operation run: its name, inputs, value returned,
\* whether it raised, and the bounding boxes it scanned the archive with.
OpRecord(name, args, out, raised, scans) ==
    [name |-> name, args |-> args, out |-> out, raised |-> raised, scans |-> scans]

Idle == OpRecord("none", <<>>, <<>>, FALSE, <<>>)

\* The request threads of the server (Flask serves each request on its own
\* thread) and the locals of search_location in each of them.
Clients == {"t1", "t2"}

NoRequest ==
    [pc |-> "idle", lat |-> 0, lon |-> 0, location_stats |-> None,
     prediction |-> None, ignition |-> None, fire_history |-> None,
     location_heatmap |-> <<>>]

NoRequests == [c \in Clients |-> NoRequest]

\* Module initialisation, lines 117-122.
InitEngine ==
    /\ fire_data = None
    /\ location_stats_cache = EmptyDict
    /\ heatmap_data = <<>>
    /\ model = None
    /\ encoder = None
    /\ status = "fresh"
    /\ op = Idle
    /\ requests = NoRequests

\* The body of load_resources on the three files it finds.  When precompute
\* raises, the archive is already assigned (line 35), the index was reset
\* (line 30), and the exception leaves load_resources before model and
\* encoder are read.
LoadEffect(file, mfile, efile) ==
    /\ op' = OpRecord("load_resources", <<file, mfile, efile>>, <<>>,
                      file # None /\ PrecomputeRaises(ParseArchive(file[1])), <<>>)
    /\ IF file = None
       THEN /\ fire_data' = None
            /\ heatmap_data' = <<>>
            /\ location_stats_cache' = EmptyDict
            /\ model' = mfile
            /\ encoder' = efile
            /\ status' = "ready"
       ELSE LET evs == ParseArchive(file[1])
            IN  /\ fire_data' = Some(evs)
                /\ heatmap_data' = LoadHeatmap(evs)
                /\ IF PrecomputeRaises(evs)
                   THEN /\ location_stats_cache' = EmptyDict
                        /\ UNCHANGED <<model, encoder>>
                        /\ status' = "crashed"
                   ELSE /\ location_stats_cache' = PrecomputeLocationStatistics(evs)
                        /\ model' = mfile
                        /\ encoder' = efile
                        /\ status' = "ready"
    /\ UNCHANGED <<inp, requests>>

\* load_resources run once at startup (line 945) before any request is
\* served; an exception ends the process (the caller does not catch it).
LoadResources(file, mfile, efile) ==
    /\ status = "fresh"
    /\ op = Idle
    /\ LoadEffect(file, mfile, efile)

\* load_resources called again on a running engine whose caller survives an
\* exception of an earlier call (nothing in the module does so itself).
Reload(file, mfile, efile) ==
    /\ op.name \in {"none", "load_resources"}
    /\ LoadEffect(file, mfile, efile)

(***************************************************************************)
(* Location resolver.                                                      *)
(***************************************************************************)
\* Mutant of FormatFloat: a whole number is printed without ".0" (as "{:g}").
FormatFloatBare(u) ==
    [sign |-> IF u < 0 THEN "-" ELSE "", whole |-> Abs(u) \div UnitsPerDegree,
     point |-> IF Abs(u) % UnitsPerDegree = 0 THEN "" ELSE ".",
     digits |-> IF Abs(u) % UnitsPerDegree = 0 THEN <<>> ELSE FractionDigits(u)]

\* f"{x}" of a float: str(x).
FormatFloat(u) ==
    [sign |-> IF u < 0 THEN "-" ELSE "", whole |-> Abs(u) \div UnitsPerDegree,
     point |-> ".", digits |-> FractionDigits(u)]

\* get_grid_key: int() truncates toward zero, as astype(int) does at load;
\* the key is the text f"{grid_lat}_{grid_lon}".
GetGridKey(latitude, longitude) ==
    LET grid_lat == TruncDiv(latitude, GridUnits) * GridUnits
        grid_lon == TruncDiv(longitude, GridUnits) * GridUnits
    IN  <<FormatFloat(grid_lat), FormatFloat(grid_lon)>>

\* lat_range = radius_km / 111.0 ; lng_range = radius_km / 85.0 (degrees).
ScanBox(radius_km) == [lat_range |-> <<radius_km, 111>>, lng_range |-> <<radius_km, 85>>]

\* Mutant of DoubleBox: only the latitude delta is doubled.
DoubleBoxLatOnly(box) ==
    [lat_range |-> <<2 * box.lat_range[1], box.lat_range[2]>>,
     lng_range |-> box.lng_range]

\* lat_range *= 2 ; lng_range *= 2
DoubleBox(box) ==
    [lat_range |-> <<2 * box.lat_range[1], box.lat_range[2]>>,
     lng_range |-> <<2 * box.lng_range[1], box.lng_range[2]>>]

\* The four inclusive comparisons of the bounding-box filter.
InBox(e, latitude, longitude, box) ==
    /\ Abs(e.latitude - latitude) * box.lat_range[2] <= box.lat_range[1] * UnitsPerDegree
    /\ Abs(e.longitude - longitude) * box.lng_range[2] <= box.lng_range[1] * UnitsPerDegree

Nearby(evs, latitude, longitude, box) ==
    SelectSeq(evs, LAMBDA e : InBox(e, latitude, longitude, box))

\* Mutant of CellDensity: scaled to fires per 100 km2 like the scan path.
CellDensityPer100(fire_count) == <<fire_count * 100, 625>>

\* fire_count / 625: fires per 25 km x 25 km cell.
CellDensity(fire_count) == <<fire_count, 625>>

\* len(nearby) / (pi * r * r) * 100, with pi taken as 355 / 113.
ScanDensity(n, radius_km) == <<n * 100 * 113, 355 * radius_km * radius_km>>

CachedStats(cached) ==
    [fire_count |-> cached.fire_count,
     avg_brightness |-> cached.avg_brightness,
     max_brightness |-> cached.max_brightness,
     avg_frp |-> cached.avg_frp,
     max_frp |-> cached.max_frp,
     years_with_fires |-> cached.years_with_fires,
     primary_cause |-> cached.primary_cause,
     fire_density |-> CellDensity(cached.fire_count)]

ScanStats(nearby, radius_km) ==
    [fire_count |-> Len(nearby),
     avg_brightness |-> MeanOf(Column(nearby, "brightness")),
     max_brightness |-> MaxOf(Column(nearby, "brightness")),
     avg_frp |-> NanMean(Column(nearby, "frp")),
     max_frp |-> NanMax(Column(nearby, "frp")),
     years_with_fires |-> NUnique(Column(nearby, "year")),
     primary_cause |-> ModeFirst(Column(nearby, "likely_cause")),
     fire_density |-> ScanDensity(Len(nearby), radius_km)]

\* What a call returns: the value, whether an exception left the function
\* instead, and the boxes the archive was scanned with.
Ret(out, scans) == [out |-> out, raised |-> FALSE, scans |-> scans]
Raise(scans) == [out |-> <<>>, raised |-> TRUE, scans |-> scans]

\* get_location_specific_stats over the globals fd (fire_data) and cache.
GetLocationSpecificStats(fd, cache, latitude, longitude, radius_km) ==
    IF fd = None THEN Ret(None, <<>>)
    ELSE LET grid_key == GetGridKey(latitude, longitude) IN
         IF grid_key \in DOMAIN cache
         THEN Ret(Some(CachedStats(cache[grid_key])), <<>>)
         ELSE LET box == ScanBox(radius_km)
                  nearby == Nearby(fd[1], latitude, longitude, box)
              IN  IF Len(nearby) = 0 THEN Ret(None, <<box>>)
                  ELSE IF ModeRaises(Column(nearby, "likely_cause"))
                       THEN Raise(<<box>>)
                       ELSE Ret(Some(ScanStats(nearby, radius_km)), <<box>>)

(***************************************************************************)
(* Risk scorer.  Heuristic scores are in units of 10^-4.                   *)
(***************************************************************************)
NoHistoryMessage == "No significant fire history detected in this area."

\* Mutant of FrequencyScore: the >500 and >200 tiers carry each other's value.
FrequencyScoreSwapped(fire_count) ==
    IF fire_count > 1000 THEN 25
    ELSE IF fire_count > 500 THEN 15
    ELSE IF fire_count > 200 THEN 20
    ELSE IF fire_count > 100 THEN 10
    ELSE IF fire_count > 50 THEN 7
    ELSE 3

FrequencyScore(fire_count) ==
    IF fire_count > 1000 THEN 25
    ELSE IF fire_count > 500 THEN 20
    ELSE IF fire_count > 200 THEN 15
    ELSE IF fire_count > 100 THEN 10
    ELSE IF fire_count > 50 THEN 7
    ELSE 3

\* Mutant of IntensityScore: the >342 tier is missing, so a brightness in
\* (342, 350] scores as the >335 tier.
IntensityScoreNo342(avg_brightness) ==
    IF Gt(avg_brightness, 350) THEN 20
    ELSE IF Gt(avg_brightness, 335) THEN 10
    ELSE IF Gt(avg_brightness, 330) THEN 6
    ELSE 3

IntensityScore(avg_brightness) ==
    IF Gt(avg_brightness, 350) THEN 20
    ELSE IF Gt(avg_brightness, 342) THEN 15
    ELSE IF Gt(avg_brightness, 335) THEN 10
    ELSE IF Gt(avg_brightness, 330) THEN 6
    ELSE 3

FrpScore(avg_frp) ==
    IF Gt(avg_frp, 15) THEN 15
    ELSE IF Gt(avg_frp, 10) THEN 10
    ELSE IF Gt(avg_frp, 6) THEN 6
    ELSE 3

RecurrenceScore(years_with_fires) ==
    IF years_with_fires >= 5 THEN 15
    ELSE IF years_with_fires >= 4 THEN 12
    ELSE IF years_with_fires >= 3 THEN 8
    ELSE IF years_with_fires >= 2 THEN 5
    ELSE 2

\* Mutant of SeasonalFactor: the shoulder months 2 and 6 fall through to the
\* off-season factor.
SeasonalFactorNoShoulder(current_month) ==
    IF current_month \in {3, 4, 5} THEN 120
    ELSE IF current_month \in {11, 12, 1} THEN 88
    ELSE 82

SeasonalFactor(current_month) ==
    IF current_month \in {3, 4, 5} THEN 120
    ELSE IF current_month \in {2, 6} THEN 108
    ELSE IF current_month \in {11, 12, 1} THEN 88
    ELSE 82

\* district_info is None or [forest_cover |-> hundredths, urban |-> BOOLEAN].
ForestAdjustment(district_info) ==
    IF district_info = None THEN 0
    ELSE LET d == district_info[1]
             forest == IF d.forest_cover > 55 THEN 12
                       ELSE IF d.forest_cover > 40 THEN 8
                       ELSE IF d.forest_cover > 25 THEN 4
                       ELSE 0
         IN  forest - (IF d.urban THEN 10 ELSE 0)

\* Mutant of ClampScore: the upper bound 0.95 is not applied.
ClampScoreNoCap(x) == Max2(800, x)

\* min(0.95, max(0.08, raw_score * seasonal_factor))
ClampScore(x) == Min2(9500, Max2(800, x))

RiskLevel(final_score) ==
    IF final_score >= 6500 THEN "High"
    ELSE IF final_score >= 4000 THEN "Moderate"
    ELSE "Low"

\* raw_score of line 408, in hundredths (base_score is 0.30).
RawScore(st, district_info) ==
    30 + FrequencyScore(st.fire_count)
       + IntensityScore(st.avg_brightness)
       + FrpScore(st.avg_frp)
       + RecurrenceScore(st.years_with_fires)
       + ForestAdjustment(district_info)

\* calculate_risk_score: <<score, level, third value>>.
CalculateRiskScore(location_stats, district_info, current_month) ==
    IF location_stats = None
    THEN <<2000, "Low", NoHistoryMessage>>
    ELSE LET st == location_stats[1]
             raw_score == RawScore(st, district_info)
             final_score == ClampScore(raw_score * SeasonalFactor(current_month))
         IN  <<final_score, RiskLevel(final_score), st.primary_cause>>

(***************************************************************************)
(* Narrative generator.  The reason string is kept as the list `reasons`   *)
(* that " ".join receives; a formatted sentence is its template, the       *)
(* number formatted into it and the label formatted into it.               *)
(***************************************************************************)
Sentence(text, num, label) == [text |-> text, num |-> num, label |-> label]
Fixed(text) == Sentence(text, <<>>, "")

RegionContext(region_name) ==
    IF region_name = Terai
    THEN "Agricultural practices and dry seasonal conditions in the Terai region contribute to elevated fire risk during dry months."
    ELSE IF region_name = Hills
    THEN "Chir pine forests with accumulated dry needles create significant fuel load in the hill region, especially during pre-monsoon months."
    ELSE "Alpine vegetation and strong winds during dry season combined with limited firefighting access create fire-prone conditions in the Himalayan zone."

FallbackSentence == "Risk assessment based on regional fire patterns and NASA satellite monitoring data."

\* Mutant of WithFallback: the generic sentence closes every reason.
WithFallbackAlways(reasons) == reasons \o <<Fixed(FallbackSentence)>>

\* Lines 462-465: the fallback for an empty list, then the list " ".join gets.
WithFallback(reasons) == IF reasons = <<>> THEN <<Fixed(FallbackSentence)>> ELSE reasons

GenerateRiskReason(location_stats, region_name) ==
    LET has == location_stats # None
        fire_count == IF has THEN location_stats[1].fire_count ELSE 0
        avg_brightness == IF has THEN location_stats[1].avg_brightness ELSE <<330, 1>>
        primary_cause == IF has THEN location_stats[1].primary_cause ELSE "Unknown"
        years_with_fires == IF has THEN location_stats[1].years_with_fires ELSE 0
        fire_density == IF has THEN location_stats[1].fire_density ELSE <<0, 1>>
        r1 == IF fire_count > 0
              THEN <<Sentence("Analysis of {fire_count:,} historical fire events from NASA VIIRS satellite data",
                              <<fire_count>>, "")>>
              ELSE <<>>
        r2 == IF years_with_fires > 1
              THEN <<Sentence("with fires recorded across {years_with_fires} different years",
                              <<years_with_fires>>, "")>>
              ELSE <<>>
        r3 == IF Gt(fire_density, 2)
              THEN <<Sentence("shows high fire density ({fire_density:.1f} fires per 100 km2)",
                              fire_density, "")>>
              ELSE IF GtFrac(fire_density, 1, 2)
              THEN <<Sentence("indicates moderate fire activity ({fire_density:.1f} fires per 100 km2)",
                              fire_density, "")>>
              ELSE <<>>
        r4 == IF Gt(avg_brightness, 345)
              THEN <<Fixed("with high-intensity fire patterns detected")>>
              ELSE IF Gt(avg_brightness, 338)
              THEN <<Fixed("showing moderate intensity fire activity")>>
              ELSE <<>>
        r5 == IF primary_cause # "" /\ primary_cause # "Unknown"
              THEN <<Sentence("Primary ignition source: {primary_cause}", <<>>, primary_cause)>>
              ELSE <<>>
        r6 == IF region_name \in EcologicalZones
              THEN <<Fixed(RegionContext(region_name))>>
              ELSE <<>>
    IN  WithFallback(r1 \o r2 \o r3 \o r4 \o r5 \o r6)

(***************************************************************************)
(* predict_risk.  Returned scores are in units of 10^-6; a classifier      *)
(* confidence is in hundredths.                                            *)
(***************************************************************************)
\* encoder.transform([region_name]) raises ValueError on an unseen label.
EncoderRaises(enc, region_name) == region_name \notin enc[1]

\* Mutant of BlendedScore: heuristic and confidence weigh the same.
BlendedScoreEven(risk_score, model_confidence) == 50 * risk_score + 5000 * model_confidence

\* (risk_score * 0.65) + (model_confidence * 0.35)
BlendedScore(risk_score, model_confidence) == 65 * risk_score + 3500 * model_confidence

\* The score the function returns when it does not blend.
Unblended(risk_score) == 100 * risk_score

\* Mutant of RefineWithModel: a failed inference still applies the 0.65
\* weight (the score is overwritten before the call that raises).
RefineWithModelLeaky(mdl, enc, location_stats, region_name, risk_score, infer) ==
    IF mdl # None /\ enc # None /\ location_stats # None
    THEN IF EncoderRaises(enc, region_name) \/ infer = <<>>
         THEN BlendedScore(risk_score, 0)
         ELSE BlendedScore(risk_score, infer[1])
    ELSE Unblended(risk_score)

\* Lines 482-509: the refinement by the classifier.  infer is what
\* predict_proba does: None when it raises, else Some(max(proba)).
RefineWithModel(mdl, enc, location_stats, region_name, risk_score, infer) ==
    IF mdl # None /\ enc # None /\ location_stats # None
    THEN IF EncoderRaises(enc, region_name) \/ infer = <<>>
         THEN Unblended(risk_score)
         ELSE BlendedScore(risk_score, infer[1])
    ELSE Unblended(risk_score)

\* Lines 474-511 once location_stats are known.
PredictRiskOn(mdl, enc, location_stats, region_name, district_info, current_month, infer) ==
    LET scored == CalculateRiskScore(location_stats, district_info, current_month)
        reason == GenerateRiskReason(location_stats, region_name)
    IN  [risk_level |-> scored[2],
         risk_score |-> RefineWithModel(mdl, enc, location_stats, region_name,
                                        scored[1], infer),
         reason |-> reason]

\* predict_risk: the resolver at radius 30, then the scorer.
PredictRisk(fd, cache, mdl, enc, latitude, longitude, region_name, district_info, current_month, infer) ==
    LET res == GetLocationSpecificStats(fd, cache, latitude, longitude, 30)
    IN  IF res.raised THEN Raise(res.scans)
        ELSE Ret(PredictRiskOn(mdl, enc, res.out, region_name, district_info,
                               current_month, infer), res.scans)

(***************************************************************************)
(* Ignition probability estimator.                                         *)
(***************************************************************************)
DensityAdjustment(fire_density) ==
    IF Gt(fire_density, 3) THEN 28
    ELSE IF GtFrac(fire_density, 3, 2) THEN 18
    ELSE IF GtFrac(fire_density, 1, 2) THEN 10
    ELSE 3

BrightnessAdjustment(avg_brightness) ==
    IF Gt(avg_brightness, 348) THEN 15
    ELSE IF Gt(avg_brightness, 340) THEN 10
    ELSE IF Gt(avg_brightness, 333) THEN 5
    ELSE 0

RecurrenceAdjustment(years_with_fires) ==
    IF years_with_fires >= 5 THEN 12
    ELSE IF years_with_fires >= 3 THEN 7
    ELSE IF years_with_fires >= 2 THEN 4
    ELSE 0

FrpAdjustment(avg_frp) ==
    IF Gt(avg_frp, 12) THEN 8
    ELSE IF Gt(avg_frp, 7) THEN 4
    ELSE 0

\* Mutant of SeasonalProb: the product is rounded to the nearest integer.
SeasonalProbRounded(base_prob, current_month) ==
    IF current_month \in {3, 4, 5} THEN (base_prob * 125 + 50) \div 100
    ELSE IF current_month \in {2, 6} THEN (base_prob * 110 + 50) \div 100
    ELSE IF current_month \in {7, 8, 9} THEN (base_prob * 70 + 50) \div 100
    ELSE IF current_month \in {11, 12, 1} THEN (base_prob * 85 + 50) \div 100
    ELSE base_prob

\* base_prob = int(base_prob * factor): truncation after the multiplication
\* (for base_prob in 18..78 the float product truncates as the exact one).
SeasonalProb(base_prob, current_month) ==
    IF current_month \in {3, 4, 5} THEN (base_prob * 125) \div 100
    ELSE IF current_month \in {2, 6} THEN (base_prob * 110) \div 100
    ELSE IF current_month \in {7, 8, 9} THEN (base_prob * 70) \div 100
    ELSE IF current_month \in {11, 12, 1} THEN (base_prob * 85) \div 100
    ELSE base_prob

RegionalBonus(region_name) ==
    IF region_name = Terai THEN 6
    ELSE IF region_name = Hills THEN 10
    ELSE IF region_name = Himalaya THEN 4
    ELSE 0

\* Mutant of ClampProb: the upper cap is forgotten.
ClampProbNoCap(base_prob) == Max2(5, base_prob)

\* min(92, max(5, base_prob))
ClampProb(base_prob) == Min2(92, Max2(5, base_prob))

IgnitionLevel(final_prob) ==
    IF final_prob >= 55 THEN "High"
    ELSE IF final_prob >= 30 THEN "Moderate"
    ELSE "Low"

\* The factor strings, in the order the code appends them.
IgnitionFactors(st, region_name, current_month) ==
    LET f1 == IF Gt(st.fire_density, 3)
              THEN <<Sentence("High historical fire density: {fire_density:.1f} fires per 100 km2", st.fire_density, "")>>
              ELSE IF GtFrac(st.fire_density, 3, 2)
              THEN <<Sentence("Moderate fire density: {fire_density:.1f} fires per 100 km2", st.fire_density, "")>>
              ELSE IF GtFrac(st.fire_density, 1, 2)
              THEN <<Sentence("Low fire density: {fire_density:.1f} fires per 100 km2", st.fire_density, "")>>
              ELSE <<Fixed("Minimal historical fire activity in this area")>>
        f2 == IF Gt(st.avg_brightness, 348)
              THEN <<Sentence("High intensity fires detected - avg brightness {avg_brightness:.0f}K", st.avg_brightness, "")>>
              ELSE IF Gt(st.avg_brightness, 340)
              THEN <<Sentence("Moderate fire intensity - avg brightness {avg_brightness:.0f}K", st.avg_brightness, "")>>
              ELSE IF Gt(st.avg_brightness, 333)
              THEN <<Sentence("Standard fire intensity patterns - {avg_brightness:.0f}K avg", st.avg_brightness, "")>>
              ELSE <<>>
        f3 == IF st.years_with_fires >= 5
              THEN <<Sentence("Consistent annual fire recurrence ({years_with_fires} years)", <<st.years_with_fires>>, "")>>
              ELSE IF st.years_with_fires >= 3
              THEN <<Sentence("Regular fire pattern detected ({years_with_fires} years)", <<st.years_with_fires>>, "")>>
              ELSE IF st.years_with_fires >= 2
              THEN <<Sentence("Some recurrence detected ({years_with_fires} years)", <<st.years_with_fires>>, "")>>
              ELSE <<>>
        f4 == IF Gt(st.avg_frp, 12)
              THEN <<Sentence("High fire radiative power ({avg_frp:.1f} MW)", st.avg_frp, "")>>
              ELSE IF Gt(st.avg_frp, 7)
              THEN <<Sentence("Moderate fire energy release ({avg_frp:.1f} MW)", st.avg_frp, "")>>
              ELSE <<>>
        f5 == IF current_month \in {3, 4, 5}
              THEN <<Fixed("Currently in peak fire season (March-May)")>>
              ELSE IF current_month \in {2, 6}
              THEN <<Fixed("Approaching/leaving fire season")>>
              ELSE IF current_month \in {7, 8, 9}
              THEN <<Fixed("Monsoon season - reduced fire risk")>>
              ELSE IF current_month \in {11, 12, 1}
              THEN <<Fixed("Post-monsoon/winter - moderate conditions")>>
              ELSE <<>>
        f6 == IF region_name = Terai
              THEN <<Fixed("Terai region: agricultural burning common")>>
              ELSE IF region_name = Hills
              THEN <<Fixed("Hill region: pine needle fuel accumulation")>>
              ELSE IF region_name = Himalaya
              THEN <<Fixed("Alpine zone: dry shrubs and wind exposure")>>
              ELSE <<>>
    IN  f1 \o f2 \o f3 \o f4 \o f5 \o f6

InsufficientData == "Insufficient historical data - area shows minimal fire activity"

\* Mutant of CalculateIgnitionProbability: the null path goes through the
\* seasonal multiplier, the regional bonus and their factor strings.
CalculateIgnitionProbabilityNullAdjusted(location_stats, region_name, current_month) ==
    IF location_stats = None
    THEN LET final_prob == ClampProb(SeasonalProb(12, current_month)
                                     + RegionalBonus(region_name))
         IN  [probability |-> final_prob, level |-> IgnitionLevel(final_prob),
              factors |-> <<Fixed(InsufficientData)>>
                          \o (IF region_name \in EcologicalZones
                              THEN <<Fixed("regional bonus")>> ELSE <<>>)]
    ELSE LET st == location_stats[1]
             summed == 15 + DensityAdjustment(st.fire_density)
                          + BrightnessAdjustment(st.avg_brightness)
                          + RecurrenceAdjustment(st.years_with_fires)
                          + FrpAdjustment(st.avg_frp)
             base_prob == SeasonalProb(summed, current_month) + RegionalBonus(region_name)
             final_prob == ClampProb(base_prob)
         IN  [probability |-> final_prob, level |-> IgnitionLevel(final_prob),
              factors |-> IgnitionFactors(st, region_name, current_month)]

\* calculate_ignition_probability.
CalculateIgnitionProbability(location_stats, region_name, current_month) ==
    IF location_stats = None
    THEN [probability |-> 12, level |-> "Low", factors |-> <<Fixed(InsufficientData)>>]
    ELSE LET st == location_stats[1]
             summed == 15 + DensityAdjustment(st.fire_density)
                          + BrightnessAdjustment(st.avg_brightness)
                          + RecurrenceAdjustment(st.years_with_fires)
                          + FrpAdjustment(st.avg_frp)
             base_prob == SeasonalProb(summed, current_month) + RegionalBonus(region_name)
             final_prob == ClampProb(base_prob)
         IN  [probability |-> final_prob, level |-> IgnitionLevel(final_prob),
              factors |-> IgnitionFactors(st, region_name, current_month)]

(***************************************************************************)
(* History aggregator.                                                     *)
(***************************************************************************)
MonthNames == <<"January", "February", "March", "April", "May", "June", "July",
                "August", "September", "October", "November", "December">>

\* groupby(col).size().to_dict(): NaN keys are dropped.
SizeBy(nearby, col) ==
    LET vals == Present(Column(nearby, col))
    IN  [k \in {v[1] : v \in Range(vals)} |-> CountOf(vals, <<k>>)]

\* max(monthly_counts, key=monthly_counts.get) over keys in ascending order.
PeakMonth(monthly_counts) ==
    IF DOMAIN monthly_counts = {} THEN "April"
    ELSE LET top == {m \in DOMAIN monthly_counts :
                        \A n \in DOMAIN monthly_counts : monthly_counts[n] <= monthly_counts[m]}
         IN  MonthNames[SetMin(top)]

DateKey(d) == (d[1][1] * 12 + d[1][2]) * 31 + d[1][3]

\* Stable insertion of e into a list sorted by acq_date, latest first.
RECURSIVE InsertByDate(_, _)
InsertByDate(sorted, e) ==
    IF sorted = <<>> THEN <<e>>
    ELSE IF DateKey(Head(sorted).acq_date) >= DateKey(e.acq_date)
         THEN <<Head(sorted)>> \o InsertByDate(Tail(sorted), e)
         ELSE <<e>> \o sorted

RECURSIVE SortByDateDesc(_)
SortByDateDesc(evs) ==
    IF evs = <<>> THEN <<>>
    ELSE InsertByDate(SortByDateDesc(SubSeq(evs, 1, Len(evs) - 1)), evs[Len(evs)])

Take(s, n) == SubSeq(s, 1, Min2(n, Len(s)))

\* nearby.nlargest(5, 'acq_date'): dated rows latest first (ties in archive
\* order), rows without a date after them, five rows at most.
NLargestByDate(nearby) ==
    Take(SortByDateDesc(SelectSeq(nearby, LAMBDA e : e.acq_date # <<>>))
            \o SelectSeq(nearby, LAMBDA e : e.acq_date = <<>>), 5)

RecentFire(e) ==
    [latitude |-> e.latitude, longitude |-> e.longitude, brightness |-> e.brightness,
     acq_date |-> e.acq_date,
     frp |-> IF e.frp = <<>> THEN <<0, 1>> ELSE <<e.frp[1], 1>>,
     likely_cause |-> IF e.likely_cause = <<>> THEN "Unknown" ELSE e.likely_cause[1]]

\* round(x, k) of a non-negative ratio to k decimals, scale = 10^k.
RoundTo(x, scale) ==
    IF x = <<>> THEN <<>> ELSE <<(2 * scale * x[1] + x[2]) \div (2 * x[2]), scale>>

\* Mutant of EmptySummary: the requested radius is reported, not the widened one.
EmptySummaryRequested(actual_radius) ==
    [yearly_counts |-> EmptyDict,
     monthly_distribution |-> EmptyDict,
     recent_fires |-> <<>>,
     stats |-> [total_nearby_fires |-> 0, avg_brightness |-> <<0, 1>>,
                avg_frp |-> <<0, 1>>, primary_cause |-> "No fire history detected",
                peak_month |-> "N/A", fire_density_per_100sqkm |-> <<0, 1>>],
     search_radius_km |-> actual_radius \div 2]

EmptySummary(actual_radius) ==
    [yearly_counts |-> EmptyDict,
     monthly_distribution |-> EmptyDict,
     recent_fires |-> <<>>,
     stats |-> [total_nearby_fires |-> 0, avg_brightness |-> <<0, 1>>,
                avg_frp |-> <<0, 1>>, primary_cause |-> "No fire history detected",
                peak_month |-> "N/A", fire_density_per_100sqkm |-> <<0, 1>>],
     search_radius_km |-> actual_radius]

\* Lines 601-613 raise when no matched row has a cause label (mode().iloc[0])
\* or none has a year (int(NaN)); the try block turns that into None.
HistoryStatsRaise(nearby) ==
    \/ ModeRaises(Column(nearby, "likely_cause"))
    \/ Present(Column(nearby, "year")) = <<>>

FullSummary(nearby, actual_radius) ==
    LET monthly_counts == SizeBy(nearby, "month")
        years == {y[1] : y \in Range(Present(Column(nearby, "year")))}
        recent_df == NLargestByDate(nearby)
    IN  [yearly_counts |-> SizeBy(nearby, "year"),
         monthly_distribution |-> monthly_counts,
         recent_fires |-> [i \in DOMAIN recent_df |-> RecentFire(recent_df[i])],
         stats |-> [total_nearby_fires |-> Len(nearby),
                    avg_brightness |-> RoundTo(MeanOf(Column(nearby, "brightness")), 10),
                    max_brightness |-> MaxOf(Column(nearby, "brightness")),
                    avg_frp |-> RoundTo(NanMean(Column(nearby, "frp")), 100),
                    max_frp |-> NanMax(Column(nearby, "frp")),
                    primary_cause |-> ModeFirst(Column(nearby, "likely_cause")),
                    peak_month |-> PeakMonth(monthly_counts),
                    fire_density_per_100sqkm |->
                        RoundTo(ScanDensity(Len(nearby), actual_radius), 100),
                    years_analyzed |-> Cardinality(years),
                    first_record |-> SetMin(years),
                    last_record |-> SetMax(years)],
         search_radius_km |-> actual_radius]

\* get_nearby_fire_history over the global fd (fire_data).
GetNearbyFireHistory(fd, latitude, longitude, radius_km) ==
    IF fd = None THEN Ret(None, <<>>)
    ELSE LET box == ScanBox(radius_km)
             first == Nearby(fd[1], latitude, longitude, box)
             expand == Len(first) = 0
             wide == DoubleBox(box)
             nearby == IF expand THEN Nearby(fd[1], latitude, longitude, wide) ELSE first
             actual_radius == IF expand THEN radius_km * 2 ELSE radius_km
             scans == IF expand THEN <<box, wide>> ELSE <<box>>
         IN  IF Len(nearby) = 0 THEN Ret(Some(EmptySummary(actual_radius)), scans)
             ELSE IF HistoryStatsRaise(nearby) THEN Ret(None, scans)
             ELSE Ret(Some(FullSummary(nearby, actual_radius)), scans)

(***************************************************************************)
(* Per-location heatmap.                                                   *)
(***************************************************************************)
\* max - min, or 1 when every brightness of the sample is the same.
BrightnessRange(hi, lo) == IF hi # lo THEN hi - lo ELSE 1

\* get_location_heatmap (a match set below the 3000 cap is used whole).
GetLocationHeatmap(fd, latitude, longitude, radius_km) ==
    IF fd = None THEN Ret(<<>>, <<>>)
    ELSE LET box == ScanBox(radius_km)
             nearby == Nearby(fd[1], latitude, longitude, box)
         IN  IF Len(nearby) = 0 THEN Ret(<<>>, <<box>>)
             ELSE LET bs == Range(Column(nearby, "brightness"))
                      lo == SetMin(bs)
                      range == BrightnessRange(SetMax(bs), lo)
                  IN  Ret([i \in DOMAIN nearby |-> HeatPoint(nearby[i], lo, range)],
                          <<box>>)

(***************************************************************************)
(* search_location, from the geocoded coordinate on.                       *)
(***************************************************************************)
\* get_nepal_region: latitude bands at 27.5 and 28.5 degrees.
GetNepalRegion(latitude) ==
    IF latitude * 2 < 55 * UnitsPerDegree THEN Terai
    ELSE IF latitude * 2 < 57 * UnitsPerDegree THEN Hills
    ELSE Himalaya

SearchLocation(fd, cache, mdl, enc, lat, lon, district_info, current_month, infer) ==
    LET region_name == GetNepalRegion(lat)
        stats == GetLocationSpecificStats(fd, cache, lat, lon, 30)
        risk == PredictRisk(fd, cache, mdl, enc, lat, lon, region_name, district_info,
                            current_month, infer)
        history == GetNearbyFireHistory(fd, lat, lon, 50)
        heat == GetLocationHeatmap(fd, lat, lon, 75)
    IN  IF stats.raised THEN Raise(stats.scans)
        ELSE Ret([region |-> region_name,
                  prediction |-> risk.out,
                  ignition |-> CalculateIgnitionProbability(stats.out, region_name,
                                                            current_month),
                  fire_history |-> history.out,
                  location_heatmap |-> heat.out],
                 stats.scans \o risk.scans \o history.scans \o heat.scans)

(***************************************************************************)
(* Inputs of the operations.                                               *)
(***************************************************************************)
\* Query coordinates: inside an indexed cell, beside one, far from all events.
QueryPoints == {<<546, 1681>>, <<552, 1681>>, <<552, 1687>>, <<575, 1710>>, <<-3, 1>>}
Radii == {10, 30, 50}
Months == 1..12
\* Region names a caller may pass: the three zones and one that is none of them.
RegionNames == EcologicalZones \cup {"Kathmandu Valley"}
District(forest_cover, urban) == [forest_cover |-> forest_cover, urban |-> urban]
\* Land-cover descriptors (forest cover in hundredths), as in NEPAL_DISTRICTS.
Districts == {None, Some(District(15, TRUE)), Some(District(60, FALSE))}
\* max(predict_proba) of the binary classifier of train_model.py (hundredths),
\* or None when inference raises.
Inferences == {None, Some(50), Some(100)}

\* A request is handled when the process is up (load_resources done, or
\* never called when the module is imported by a WSGI server) and the
\* previous call has returned.
Serving == status \in {"fresh", "ready"} /\ op.name \in {"none", "load_resources"}

(***************************************************************************)
(* Query-time operations on the loaded engine.                             *)
(***************************************************************************)
Done(name, args, r) == op' = OpRecord(name, args, r.out, r.raised, r.scans)

Frame == UNCHANGED <<fire_data, location_stats_cache, heatmap_data, model, encoder,
                     status, inp, requests>>

Resolve(lat, lon, radius_km) ==
    /\ Serving
    /\ Done("resolve", [lat |-> lat, lon |-> lon, radius_km |-> radius_km],
            GetLocationSpecificStats(fire_data, location_stats_cache, lat, lon, radius_km))
    /\ Frame

Predict(lat, lon, region_name, district_info, current_month, infer) ==
    /\ Serving
    /\ Done("predict_risk",
            [lat |-> lat, lon |-> lon, region_name |-> region_name,
             district_info |-> district_info, current_month |-> current_month,
             infer |-> infer,
             location_stats |-> GetLocationSpecificStats(fire_data, location_stats_cache,
                                                         lat, lon, 30).out],
            PredictRisk(fire_data, location_stats_cache, model, encoder, lat, lon,
                        region_name, district_info, current_month, infer))
    /\ Frame

Ignition(lat, lon, region_name, current_month) ==
    LET stats == GetLocationSpecificStats(fire_data, location_stats_cache, lat, lon, 30)
    IN  /\ Serving
        /\ ~stats.raised
        /\ Done("ignition",
                [lat |-> lat, lon |-> lon, region_name |-> region_name,
                 current_month |-> current_month, location_stats |-> stats.out],
                Ret(CalculateIgnitionProbability(stats.out, region_name, current_month),
                    <<>>))
        /\ Frame

History(lat, lon, radius_km) ==
    /\ Serving
    /\ Done("history", [lat |-> lat, lon |-> lon, radius_km |-> radius_km],
            GetNearbyFireHistory(fire_data, lat, lon, radius_km))
    /\ Frame

Heatmap(lat, lon, radius_km) ==
    /\ Serving
    /\ Done("heatmap", [lat |-> lat, lon |-> lon, radius_km |-> radius_km],
            GetLocationHeatmap(fire_data, lat, lon, radius_km))
    /\ Frame

Search(lat, lon, district_info, current_month, infer) ==
    /\ Serving
    /\ Done("search",
            [lat |-> lat, lon |-> lon, district_info |-> district_info,
             current_month |-> current_month, infer |-> infer],
            SearchLocation(fire_data, location_stats_cache, model, encoder, lat, lon,
                           district_info, current_month, infer))
    /\ Frame

\* The caller takes the value (or the exception) of the call just made.
Respond ==
    /\ op.name \notin {"none", "load_resources"}
    /\ op' = Idle
    /\ Frame

Init == InitEngine /\ inp = None

Next ==
    \/ \E file \in ArchiveFiles, mfile \in ModelFiles, efile \in EncoderFiles :
          LoadResources(file, mfile, efile)
    \/ \E p \in QueryPoints, r \in Radii : Resolve(p[1], p[2], r)
    \/ \E p \in QueryPoints, region \in {Terai, "Kathmandu Valley"},
          d \in {None, Some(District(60, FALSE))}, m \in {4, 8},
          infer \in {None, Some(100)} :
          Predict(p[1], p[2], region, d, m, infer)
    \/ \E p \in QueryPoints, region \in {Hills, "Kathmandu Valley"}, m \in {4, 10} :
          Ignition(p[1], p[2], region, m)
    \/ \E p \in QueryPoints, r \in Radii : History(p[1], p[2], r)
    \/ \E p \in QueryPoints, r \in Radii : Heatmap(p[1], p[2], r)
    \/ \E p \in QueryPoints, d \in {None, Some(District(15, TRUE))}, infer \in {None, Some(50)} :
          Search(p[1], p[2], d, 4, infer)
    \/ Respond

Spec == Init /\ [][Next]_vars

(***************************************************************************)
(* The scorer and the estimator as functions of the resolved statistics:   *)
(* the statistics a large archive can resolve to are drawn at Init, and    *)
(* the two functions are applied to them.                                  *)
(***************************************************************************)
Stats(fire_count, avg_brightness, avg_frp, years, cause, density) ==
    [fire_count |-> fire_count,
     avg_brightness |-> avg_brightness,
     max_brightness |-> avg_brightness,
     avg_frp |-> avg_frp,
     max_frp |-> avg_frp,
     years_with_fires |-> years,
     primary_cause |-> cause,
     fire_density |-> density]

StatsInputs ==
    {None} \cup
    {Some(Stats(n, b, f, y, c, d)) :
        n \in {1, 620, 1001},
        b \in {<<330, 1>>, <<344, 1>>, <<351, 1>>},
        f \in {<<>>, <<8, 1>>, <<16, 1>>},
        y \in {0, 4, 5},
        c \in {"Unknown", Agricultural},
        d \in {<<1, 625>>, <<4, 1>>}}

ScoreInit ==
    /\ fire_data = None
    /\ location_stats_cache = EmptyDict
    /\ heatmap_data = <<>>
    /\ model \in ModelFiles
    /\ encoder \in EncoderFiles
    /\ status = "ready"
    /\ op = Idle
    /\ requests = NoRequests
    /\ inp \in {[location_stats |-> s] : s \in StatsInputs}

ScoreRisk(region_name, district_info, current_month, infer) ==
    /\ op = Idle
    /\ Done("predict_risk",
            [region_name |-> region_name, district_info |-> district_info,
             current_month |-> current_month, infer |-> infer,
             location_stats |-> inp.location_stats],
            Ret(PredictRiskOn(model, encoder, inp.location_stats, region_name,
                              district_info, current_month, infer), <<>>))
    /\ Frame

ScoreIgnition(region_name, current_month) ==
    /\ op = Idle
    /\ Done("ignition",
            [region_name |-> region_name, current_month |-> current_month,
             location_stats |-> inp.location_stats],
            Ret(CalculateIgnitionProbability(inp.location_stats, region_name,
                                             current_month), <<>>))
    /\ Frame

\* predict_proba is reached only with a model, an encoder and statistics.
InferencesHere ==
    IF model # None /\ encoder # None /\ inp.location_stats # None
    THEN Inferences ELSE {None}

ScoreNext ==
    \/ \E region \in {Terai, "Kathmandu Valley"}, d \in Districts, m \in Months,
          infer \in InferencesHere :
          ScoreRisk(region, d, m, infer)
    \/ \E region \in RegionNames, m \in Months : ScoreIgnition(region, m)
    \/ Respond

ScoreSpec == ScoreInit /\ [][ScoreNext]_vars

(***************************************************************************)
(* Concurrent requests: each thread runs search_location (lines 857-878)   *)
(* one call at a time; the calls of different threads interleave.          *)
(***************************************************************************)
\* Coordinates the geocoder hands to concurrent requests: inside an indexed
\* cell, beside one, far from every event.
ConcPoints == {<<546, 1681>>, <<552, 1681>>, <<575, 1710>>}
\* The month the concurrent requests are served in, and what predict_proba
\* answers them.
ConcMonth == 4
ConcInfer == Some(100)

\* What a request step leaves alone: every global of the module.
ReadOnly == UNCHANGED <<fire_data, location_stats_cache, heatmap_data, model, encoder,
                        status, inp, op>>

Advance(c, r) == requests' = [requests EXCEPT ![c] = r]

\* A request arrives once load_resources has completed; lat, lon come from
\* the geocoder (lines 857-858).
Arrive(c, lat, lon) ==
    /\ status = "ready"
    /\ requests[c].pc = "idle"
    /\ Advance(c, [NoRequest EXCEPT !.pc = "resolve", !.lat = lat, !.lon = lon])
    /\ ReadOnly

\* Mutant of StepResolve: a scan result is memoised in the grid index.
StepResolveMemo(c) ==
    LET q == requests[c]
        r == GetLocationSpecificStats(fire_data, location_stats_cache, q.lat, q.lon, 30)
        k == GetGridKey(q.lat, q.lon)
    IN  /\ q.pc = "resolve"
        /\ Advance(c, IF r.raised THEN [q EXCEPT !.pc = "raised"]
                      ELSE [q EXCEPT !.pc = "predict", !.location_stats = r.out])
        /\ location_stats_cache' =
              IF r.raised \/ r.out = None \/ k \in DOMAIN location_stats_cache
              THEN location_stats_cache
              ELSE [x \in DOMAIN location_stats_cache \cup {k} |->
                       IF x = k THEN [y \in DOMAIN r.out[1] \ {"fire_density"} |-> r.out[1][y]]
                       ELSE location_stats_cache[x]]
        /\ UNCHANGED <<fire_data, heatmap_data, model, encoder, status, inp, op>>

\* Line 866: location_stats = get_location_specific_stats(lat, lon, 30); an
\* exception ends the request (Flask answers 500).
StepResolve(c) ==
    LET q == requests[c]
        r == GetLocationSpecificStats(fire_data, location_stats_cache, q.lat, q.lon, 30)
    IN  /\ q.pc = "resolve"
        /\ Advance(c, IF r.raised THEN [q EXCEPT !.pc = "raised"]
                      ELSE [q EXCEPT !.pc = "predict", !.location_stats = r.out])
        /\ ReadOnly

\* Line 869: predict_risk, which resolves the statistics again itself.
StepPredict(c) ==
    LET q == requests[c]
        r == PredictRisk(fire_data, location_stats_cache, model, encoder, q.lat, q.lon,
                         GetNepalRegion(q.lat), None, ConcMonth, ConcInfer)
    IN  /\ q.pc = "predict"
        /\ Advance(c, IF r.raised THEN [q EXCEPT !.pc = "raised"]
                      ELSE [q EXCEPT !.pc = "ignition", !.prediction = Some(r.out)])
        /\ ReadOnly

\* Line 872: the ignition estimate on the statistics of line 866.
StepIgnition(c) ==
    LET q == requests[c]
    IN  /\ q.pc = "ignition"
        /\ Advance(c, [q EXCEPT !.pc = "history",
                                !.ignition = Some(CalculateIgnitionProbability(
                                    q.location_stats, GetNepalRegion(q.lat), ConcMonth))])
        /\ ReadOnly

\* Line 875: get_nearby_fire_history(lat, lon, 50).
StepHistory(c) ==
    LET q == requests[c]
    IN  /\ q.pc = "history"
        /\ Advance(c, [q EXCEPT !.pc = "heatmap",
                                !.fire_history =
                                    GetNearbyFireHistory(fire_data, q.lat, q.lon, 50).out])
        /\ ReadOnly

\* Line 878: get_location_heatmap(lat, lon, 75); the response is then built.
StepHeatmap(c) ==
    LET q == requests[c]
    IN  /\ q.pc = "heatmap"
        /\ Advance(c, [q EXCEPT !.pc = "done",
                                !.location_heatmap =
                                    GetLocationHeatmap(fire_data, q.lat, q.lon, 75).out])
        /\ ReadOnly

\* The response (or the 500 error) is sent and the thread is free again.
Reply(c) ==
    /\ requests[c].pc \in {"done", "raised"}
    /\ Advance(c, NoRequest)
    /\ ReadOnly

ConcNext ==
    \/ \E file \in ArchiveFiles :
          LoadResources(file, Some("RandomForestClassifier"), Some(EcologicalZones))
    \/ \E c \in Clients, p \in ConcPoints : Arrive(c, p[1], p[2])
    \/ \E c \in Clients : StepResolve(c)
    \/ \E c \in Clients : StepPredict(c)
    \/ \E c \in Clients : StepIgnition(c)
    \/ \E c \in Clients : StepHistory(c)
    \/ \E c \in Clients : StepHeatmap(c)
    \/ \E c \in Clients : Reply(c)

ConcSpec == Init /\ [][ConcNext]_vars

(***************************************************************************)
(* The grid key as a function of the coordinates: get_grid_key at query    *)
(* time and the grid columns of precompute_location_statistics at load.    *)
(***************************************************************************)
\* Coordinates (0.05 degree units) on both sides of zero and inside Nepal.
KeyLatitudes == (-12 .. 12) \cup {546, 550, 554}
KeyLongitudes == (-7 .. 7) \cup {1681, 1685}

KeyInit ==
    /\ InitEngine
    /\ inp \in {[latitude |-> la, longitude |-> lo] :
                   la \in KeyLatitudes, lo \in KeyLongitudes}

\* get_grid_key(latitude, longitude), lines 266-270.
KeyAtQuery ==
    /\ op = Idle
    /\ Done("get_grid_key", inp, Ret(GetGridKey(inp.latitude, inp.longitude), <<>>))
    /\ Frame

\* The grid_key column of an archive row at these coordinates, lines 87-89.
KeyAtLoad ==
    /\ op = Idle
    /\ Done("grid_key", inp,
            Ret(KeyOf(Event(Row(<<inp.latitude>>, <<inp.longitude>>, <<350>>, <<>>,
                                <<>>, <<>>))), <<>>))
    /\ Frame

KeyNext == KeyAtQuery \/ KeyAtLoad \/ Respond

KeySpec == KeyInit /\ [][KeyNext]_vars

(***************************************************************************)
(* The heuristic scorer alone (no classifier file), on statistics that sit *)
(* on both sides of every tier of calculate_risk_score.                    *)
(***************************************************************************)
TierStatsInputs ==
    {Some(Stats(n, b, f, y, Agricultural, <<n, 625>>)) :
        n \in {50, 51, 100, 101, 200, 201, 500, 501, 1000, 1001},
        b \in {<<330, 1>>, <<331, 1>>, <<335, 1>>, <<336, 1>>, <<342, 1>>, <<685, 2>>,
               <<350, 1>>, <<351, 1>>},
        f \in {<<>>, <<6, 1>>, <<13, 2>>, <<10, 1>>, <<11, 1>>, <<15, 1>>, <<16, 1>>},
        y \in 0 .. 5}

\* Land-cover descriptors on both sides of the forest-cover tiers.
TierDistricts ==
    {None, Some(District(25, FALSE)), Some(District(26, TRUE)), Some(District(40, TRUE)),
     Some(District(41, FALSE)), Some(District(55, FALSE)), Some(District(56, TRUE))}

TierInit ==
    /\ InitEngine
    /\ inp \in {[location_stats |-> s] : s \in TierStatsInputs}

TierNext ==
    \/ \E d \in TierDistricts, m \in Months : ScoreRisk(Terai, d, m, None)
    \/ Respond

TierSpec == TierInit /\ [][TierNext]_vars

(***************************************************************************)
(* The ignition estimator alone, on statistics that sit on both sides of   *)
(* every tier of calculate_ignition_probability.                           *)
(***************************************************************************)
EstimatorStatsInputs ==
    {Some(Stats(1, b, f, y, Agricultural, d)) :
        b \in {<<333, 1>>, <<334, 1>>, <<340, 1>>, <<681, 2>>, <<348, 1>>, <<349, 1>>},
        f \in {<<>>, <<7, 1>>, <<15, 2>>, <<12, 1>>, <<13, 1>>},
        y \in 0 .. 5,
        d \in {<<1, 625>>, <<1, 2>>, <<51, 100>>, <<3, 2>>, <<151, 100>>, <<3, 1>>, <<4, 1>>}}

EstimatorInit ==
    /\ InitEngine
    /\ inp \in {[location_stats |-> s] : s \in EstimatorStatsInputs}

EstimatorNext ==
    \/ \E region \in RegionNames, m \in Months : ScoreIgnition(region, m)
    \/ Respond

EstimatorSpec == EstimatorInit /\ [][EstimatorNext]_vars

(***************************************************************************)
(* The narrative generator, on statistics that sit on both sides of every  *)
(* condition of generate_risk_reason (null statistics included).           *)
(***************************************************************************)
NarrativeStatsInputs ==
    {None} \cup
    {Some(Stats(n, b, <<8, 1>>, y, c, d)) :
        n \in {1, 1234},
        b \in {<<338, 1>>, <<339, 1>>, <<345, 1>>, <<346, 1>>},
        y \in {0, 1, 2},
        c \in {"Unknown", Agricultural},
        d \in {<<1, 2>>, <<51, 100>>, <<2, 1>>, <<201, 100>>}}

NarrativeInit ==
    /\ InitEngine
    /\ inp \in {[location_stats |-> s] : s \in NarrativeStatsInputs}

NarrativeNext ==
    \/ \E region \in RegionNames : ScoreRisk(region, None, 4, None)
    \/ Respond

NarrativeSpec == NarrativeInit /\ [][NarrativeNext]_vars

(***************************************************************************)
(* Sequences of load_resources calls on changing files.                    *)
(***************************************************************************)
ReloadNext ==
    \E file \in ArchiveFiles, mfile \in ModelFiles :
        Reload(file, mfile, IF mfile = None THEN None ELSE Some(EcologicalZones))

ReloadSpec == Init /\ [][ReloadNext]_vars

(***************************************************************************)
(* History specification: archives of up to MaxHistoryRows events around   *)
(* one place, more than the preview's five, with tied dates, rows without  *)
(* a parseable date and a later event outside the search box.              *)
(***************************************************************************)
HistoryRows ==
    { Row(<<546>>, <<1681>>, <<350>>, <<8>>, <<>>, <<Agricultural>>),
      Row(<<546>>, <<1681>>, <<350>>, <<8>>, <<<<2020, 4, 10>>>>, <<Agricultural>>),
      Row(<<547>>, <<1682>>, <<340>>, <<8>>, <<<<2021, 3, 5>>>>, <<PineNeedles>>),
      Row(<<546>>, <<1682>>, <<330>>, <<8>>, <<<<2021, 11, 20>>>>, <<Agricultural>>),
      Row(<<575>>, <<1710>>, <<350>>, <<8>>, <<<<2022, 4, 1>>>>, <<Agricultural>>) }

HistoryFiles == SeqsUpTo(HistoryRows, MaxHistoryRows)

HistoryNext ==
    \/ \E file \in HistoryFiles : LoadResources(Some(file), None, None)
    \/ History(546, 1681, 10)

HistorySpec == Init /\ [][HistoryNext]_vars

(***************************************************************************)
(* Properties.                                                             *)
(***************************************************************************)
\* Indices of the archive rows inside the inclusive box
\* [lat +- km/111, lon +- km/85], written out on the coordinate units.
RowsWithin(lat, lon, km) ==
    IF fire_data = None THEN {}
    ELSE {i \in DOMAIN fire_data[1] :
             /\ 111 * Abs(fire_data[1][i].latitude - lat) <= 20 * km
             /\ 85 * Abs(fire_data[1][i].longitude - lon) <= 20 * km}

HasScore == op.name = "predict_risk" /\ ~op.raised

\* C1: the risk score predict_risk returns lies in [0.08, 0.95] for every
\* query, blended with the classifier confidence or not.
C1_RiskScoreInRange ==
    HasScore => op.out.risk_score >= 80000 /\ op.out.risk_score <= 950000

\* C2: the ignition probability is an integer in [5, 92] for every stats
\* value (null included), every month and every region name.
C2_IgnitionInRange ==
    op.name = "ignition" => op.out.probability \in 5..92

\* C2 witness: non-null stats and a region that is none of the three zones,
\* with the additive sum above the cap, so that the clamp decides the value.
C2_Witness ==
    /\ op.name = "ignition"
    /\ op.args.location_stats # None
    /\ op.args.region_name \notin EcologicalZones
    /\ op.args.current_month = 4
    /\ op.args.location_stats[1].years_with_fires = 5
    /\ Gt(op.args.location_stats[1].fire_density, 3)
    /\ Gt(op.args.location_stats[1].avg_brightness, 348)
    /\ Gt(op.args.location_stats[1].avg_frp, 12)
    /\ op.out.probability = 92

\* C3: with null stats predict_risk delivers exactly (Low, 0.20, the fixed
\* no-history message).
C3_NullStatsFixedMessage ==
    (HasScore /\ op.args.location_stats = None) =>
        /\ op.out.risk_level = "Low"
        /\ op.out.risk_score = 200000
        /\ op.out.reason = <<Fixed("No significant fire history detected in this area.")>>

\* The classifier or its encoder raised during inference.
InferenceFailed ==
    /\ HasScore
    /\ model # None /\ encoder # None /\ op.args.location_stats # None
    /\ (op.args.infer = None \/ op.args.region_name \notin encoder[1])

\* C4: when the encoder or the classifier raises, predict_risk does not raise
\* and returns the level, score and reason of a call with no classifier loaded.
C4_ClassifierFailureFallsBack ==
    (/\ op.name = "predict_risk"
     /\ model # None /\ encoder # None /\ op.args.location_stats # None
     /\ (op.args.infer = None \/ op.args.region_name \notin encoder[1]))
    => /\ ~op.raised
       /\ op.out = PredictRiskOn(None, None, op.args.location_stats,
                                 op.args.region_name, op.args.district_info,
                                 op.args.current_month, None)

\* C4 witness: the encoder rejects the region name although predict_proba
\* would have answered, and the heuristic score comes back.
C4_Witness ==
    /\ InferenceFailed
    /\ op.args.region_name \notin encoder[1]
    /\ op.args.infer = Some(100)
    /\ op.out.risk_level = "High"

\* C5: history scans at most twice; the second scan happens exactly when the
\* first matched nothing and uses exactly doubled deltas; a returned summary
\* reports radius r when the first scan matched and 2r otherwise.
C5_HistoryOneRetry ==
    op.name = "history" =>
        LET r == op.args.radius_km
            matched == RowsWithin(op.args.lat, op.args.lon, r) # {}
        IN  /\ Len(op.scans) <= 2
            /\ fire_data # None =>
                 /\ Len(op.scans) >= 1
                 /\ op.scans[1] = [lat_range |-> <<r, 111>>, lng_range |-> <<r, 85>>]
                 /\ (Len(op.scans) = 2) <=> ~matched
                 /\ Len(op.scans) = 2 =>
                      op.scans[2] = [lat_range |-> <<2 * r, 111>>,
                                     lng_range |-> <<2 * r, 85>>]
                 /\ op.out # None =>
                      op.out[1].search_radius_km = (IF matched THEN r ELSE 2 * r)

\* C5 witness: the first scan matched nothing, the retry at the doubled box
\* found events, and the summary reports the doubled radius.
C5_Witness ==
    /\ op.name = "history"
    /\ Len(op.scans) = 2
    /\ op.out # None
    /\ op.out[1].stats.total_nearby_fires > 0
    /\ op.out[1].search_radius_km = 2 * op.args.radius_km

\* The scan at r and the retry at 2r both match nothing in a loaded archive.
BothScansEmpty ==
    /\ op.name = "history"
    /\ fire_data # None
    /\ RowsWithin(op.args.lat, op.args.lon, op.args.radius_km) = {}
    /\ RowsWithin(op.args.lat, op.args.lon, 2 * op.args.radius_km) = {}

\* C6: when the scan and its retry both match nothing, history returns a
\* well-formed all-empty summary with search_radius_km = 2r, without raising.
C6_EmptyHistorySummary ==
    BothScansEmpty =>
        /\ ~op.raised
        /\ op.out # None
        /\ DOMAIN op.out[1].yearly_counts = {}
        /\ DOMAIN op.out[1].monthly_distribution = {}
        /\ op.out[1].recent_fires = <<>>
        /\ op.out[1].stats.total_nearby_fires = 0
        /\ op.out[1].stats.avg_brightness = <<0, 1>>
        /\ op.out[1].stats.avg_frp = <<0, 1>>
        /\ op.out[1].stats.fire_density_per_100sqkm = <<0, 1>>
        /\ op.out[1].search_radius_km = 2 * op.args.radius_km

\* C6 witness: a non-empty archive, a far coordinate, r = 50 and 100 reported.
C6_Witness ==
    /\ BothScansEmpty
    /\ Len(fire_data[1]) > 0
    /\ op.args.radius_km = 50
    /\ op.out[1].search_radius_km = 100

\* C7: history never returns null, whatever the archive state.
C7_HistoryNeverNull ==
    op.name = "history" => op.out # None

\* The query's grid key is in the index of a loaded archive.
FastPath ==
    /\ op.name = "resolve"
    /\ fire_data # None
    /\ GetGridKey(op.args.lat, op.args.lon) \in DOMAIN location_stats_cache

\* C8: on an indexed grid key resolve returns the cell's aggregates unchanged
\* with fire_density = fire_count / 625, whatever the radius, without a scan.
C8_FastPathReturnsCell ==
    FastPath =>
        LET cell == location_stats_cache[GetGridKey(op.args.lat, op.args.lon)]
        IN  /\ ~op.raised
            /\ op.scans = <<>>
            /\ op.out = Some([fire_count |-> cell.fire_count,
                              avg_brightness |-> cell.avg_brightness,
                              max_brightness |-> cell.max_brightness,
                              avg_frp |-> cell.avg_frp,
                              max_frp |-> cell.max_frp,
                              years_with_fires |-> cell.years_with_fires,
                              primary_cause |-> cell.primary_cause,
                              fire_density |-> <<cell.fire_count, 625>>])

\* C8 witness: a two-event cell resolved at the smallest radius, whose box
\* holds only one of the two events.
C8_Witness ==
    /\ FastPath
    /\ op.args.radius_km = 10
    /\ op.out[1].fire_count = 2
    /\ Cardinality(RowsWithin(op.args.lat, op.args.lon, 10)) = 1

\* The query's grid key is not in the index of a loaded archive.
SlowPath ==
    /\ op.name = "resolve"
    /\ fire_data # None
    /\ GetGridKey(op.args.lat, op.args.lon) \notin DOMAIN location_stats_cache

\* C9: on an absent grid key resolve scans the box at radius r exactly once;
\* an empty box gives null without raising or widening, otherwise the
\* returned fire_count is the number of events in the box.
C9_SlowPathScansOnce ==
    SlowPath =>
        LET r == op.args.radius_km
            inside == RowsWithin(op.args.lat, op.args.lon, r)
        IN  /\ op.scans = <<[lat_range |-> <<r, 111>>, lng_range |-> <<r, 85>>]>>
            /\ inside = {} => (~op.raised /\ op.out = None)
            /\ inside # {} =>
                 (~op.raised /\ op.out # None
                  /\ op.out[1].fire_count = Cardinality(inside))

\* C10: no query-time operation raises to its caller.
C10_NoQueryRaises ==
    op.name \in {"resolve", "predict_risk", "ignition", "history", "heatmap", "search"}
        => ~op.raised

\* The response a request would get if it ran alone on the loaded state.
AloneResult(lat, lon) ==
    SearchLocation(fire_data, location_stats_cache, model, encoder, lat, lon,
                   None, ConcMonth, ConcInfer)

\* Every finished request holds the response of a run alone, and a request
\* ended by an exception is one that raises when run alone.
SameAsAlone ==
    \A c \in Clients :
        LET q == requests[c]
            alone == AloneResult(q.lat, q.lon)
        IN  /\ q.pc = "raised" => alone.raised
            /\ q.pc = "done" =>
                 /\ ~alone.raised
                 /\ q.prediction = Some(alone.out.prediction)
                 /\ q.ignition = Some(alone.out.ignition)
                 /\ q.fire_history = alone.out.fire_history
                 /\ q.location_heatmap = alone.out.location_heatmap

\* A step that changes the archive or the grid index is load_resources.
OnlyLoadWrites ==
    \/ UNCHANGED <<fire_data, location_stats_cache>>
    \/ status = "fresh" /\ op'.name = "load_resources"

\* C11: once load_resources has completed, no step of any request changes
\* the event archive or the grid index, however the requests interleave;
\* only load_resources writes them; and every request ends with the result
\* it has when it runs alone.
C11_QueriesReadOnly == [][OnlyLoadWrites]_vars /\ []SameAsAlone

\* C11 witness: one request has finished on the scan path (its cell is not
\* indexed) while another one is in the middle of its own calls.
C11_Witness ==
    /\ requests["t1"].pc = "done"
    /\ requests["t1"].location_stats # None
    /\ GetGridKey(requests["t1"].lat, requests["t1"].lon) \notin DOMAIN location_stats_cache
    /\ requests["t2"].pc = "history"
    /\ requests["t2"].lat # requests["t1"].lat

\* The lower edge of the half-open 0.25 degree cell [k/4, (k+1)/4) that x
\* lies in (\div rounds toward minus infinity).
CellFloor(x) == (x \div GridUnits) * GridUnits

\* C12: for every coordinate, negative ones included, the grid key is the
\* pair of the nearest lower multiples of 0.25 of latitude and longitude, so
\* two coordinates share a key exactly when they share a half-open cell.
C12_GridKeyIsFloor ==
    op.name \in {"get_grid_key", "grid_key"} =>
        /\ op.out = <<FormatFloat(CellFloor(op.args.latitude)),
                      FormatFloat(CellFloor(op.args.longitude))>>
        /\ \A la \in KeyLatitudes, lo \in KeyLongitudes :
              (GetGridKey(la, lo) = op.out)
                  <=> (/\ CellFloor(la) = CellFloor(op.args.latitude)
                       /\ CellFloor(lo) = CellFloor(op.args.longitude))

\* predict_risk has answered for the worked example of the scorer: 620
\* fires, average brightness 344, average FRP 8, 4 distinct years, no
\* land-cover descriptor, no classifier, April.
WorkedExample ==
    /\ HasScore
    /\ model = None
    /\ op.args.district_info = None
    /\ op.args.current_month = 4
    /\ op.args.location_stats # None
    /\ op.args.location_stats[1].fire_count = 620
    /\ op.args.location_stats[1].avg_brightness = <<344, 1>>
    /\ op.args.location_stats[1].avg_frp = <<8, 1>>
    /\ op.args.location_stats[1].years_with_fires = 4

\* C13: for the worked example the risk score is 0.95 and the level High.
C13_WorkedExampleResult ==
    WorkedExample => op.out.risk_score = 950000 /\ op.out.risk_level = "High"

\* C13 witness: the worked example has been scored.
C13_Witness == WorkedExample /\ op.out.risk_level = "High"

\* C14 as stated: in the worked example the intensity term is 0.10, the raw
\* sum 0.78 and its product with the 1.20 seasonal multiplier 0.936.
C14_WorkedExampleTerms ==
    WorkedExample =>
        LET st == op.args.location_stats[1]
        IN  /\ IntensityScore(st.avg_brightness) = 10
            /\ RawScore(st, op.args.district_info) = 78
            /\ RawScore(st, op.args.district_info)
                  * SeasonalFactor(op.args.current_month) = 9360

\* C14 amended: in the worked example the intensity term is 0.15 (344 is
\* above 342), the raw sum is 0.83 and its product with the 1.20 seasonal
\* multiplier is 0.996, which the clamp brings down to the 0.95 returned.
C14_WorkedExampleTermsAmended ==
    WorkedExample =>
        LET st == op.args.location_stats[1]
        IN  /\ IntensityScore(st.avg_brightness) = 15
            /\ FrequencyScore(st.fire_count) = 20
            /\ FrpScore(st.avg_frp) = 6
            /\ RecurrenceScore(st.years_with_fires) = 12
            /\ RawScore(st, op.args.district_info) = 83
            /\ RawScore(st, op.args.district_info)
                  * SeasonalFactor(op.args.current_month) = 9960
            /\ op.out.risk_score = 950000

\* C14 witness: the worked example scored with a modal cause on record.
C14_Witness ==
    /\ WorkedExample
    /\ op.args.location_stats[1].primary_cause = Agricultural
    /\ op.out.risk_score = 950000

\* An intensity that is a number (not NaN) within [0, 1].
IntensityDefined(x) == x # <<>> /\ x[1] >= 0 /\ x[1] <= x[2]

\* C15: every intensity of the archive-wide heatmap prepared at load and of
\* every per-location heatmap is a defined number in [0, 1], also when all
\* brightness values of the sample are equal (a one-event sample included).
C15_HeatIntensitiesDefined ==
    /\ \A i \in DOMAIN heatmap_data : IntensityDefined(heatmap_data[i].intensity)
    /\ op.name = "heatmap" =>
          \A i \in DOMAIN op.out : IntensityDefined(op.out[i].intensity)

\* C16: with null stats the ignition estimate is exactly probability 12,
\* level Low and one factor string, for every month and every region name.
C16_NullIgnitionFixed ==
    (op.name = "ignition" /\ op.args.location_stats = None) =>
        /\ op.out.probability = 12
        /\ op.out.level = "Low"
        /\ Len(op.out.factors) = 1

\* C16 witness: null stats in the peak season in the Hills, where non-null
\* stats get the 1.25 multiplier, the +10 bonus and two more factor strings.
C16_Witness ==
    /\ op.name = "ignition"
    /\ op.args.location_stats = None
    /\ op.args.current_month = 4
    /\ op.args.region_name = Hills
    /\ op.out.probability = 12

\* Fire counts in increasing order, on both sides of every frequency tier.
FireCounts == <<0, 1, 50, 51, 100, 101, 200, 201, 500, 501, 620, 1000, 1001, 5000>>

LevelRank(level) == IF level = "High" THEN 3 ELSE IF level = "Moderate" THEN 2 ELSE 1

\* The heuristic result for the stats st with its fire count replaced by n.
ScoredWithCount(st, n, district_info, current_month) ==
    CalculateRiskScore(Some([st EXCEPT !.fire_count = n]), district_info, current_month)

\* C17: with brightness, FRP, distinct years, land cover and month held
\* fixed, a larger fire_count never gives a smaller frequency term, a
\* smaller clamped heuristic score or a lower risk level (stated step by
\* step along the increasing fire counts).
C17_FireCountMonotone ==
    (HasScore /\ op.args.location_stats # None) =>
        LET st == op.args.location_stats[1]
            d == op.args.district_info
            m == op.args.current_month
        IN  /\ op.out.risk_level = ScoredWithCount(st, st.fire_count, d, m)[2]
            /\ \A i \in 1 .. (Len(FireCounts) - 1) :
                  LET lower == ScoredWithCount(st, FireCounts[i], d, m)
                      higher == ScoredWithCount(st, FireCounts[i + 1], d, m)
                  IN  /\ FrequencyScore(FireCounts[i]) <= FrequencyScore(FireCounts[i + 1])
                      /\ lower[1] <= higher[1]
                      /\ LevelRank(lower[2]) <= LevelRank(higher[2])

\* C17 witness: fixed inputs for which the fire count alone decides the
\* level: 1 fire scores Low or Moderate, 1001 fires score High.
C17_Witness ==
    /\ HasScore
    /\ op.args.location_stats # None
    /\ op.args.location_stats[1].fire_count = 1
    /\ op.out.risk_level # "High"
    /\ ScoredWithCount(op.args.location_stats[1], 1001, op.args.district_info,
                       op.args.current_month)[2] = "High"

\* C18: for non-null stats, every month and every land-cover descriptor the
\* heuristic score is clamp((0.30 + frequency + intensity + frp + recurrence
\* + land) * seasonal, 0.08, 0.95) with the tiers of the specification
\* written out here (hundredths; x > t on a ratio <<p, q>> is p > t * q and
\* is false for NaN), and the cause returned is the stats' modal cause.
C18_HeuristicFormula ==
    (HasScore /\ op.args.location_stats # None) =>
        LET st == op.args.location_stats[1]
            d == op.args.district_info
            m == op.args.current_month
            n == st.fire_count
            b == st.avg_brightness
            f == st.avg_frp
            y == st.years_with_fires
            above(x, t) == x # <<>> /\ x[1] > t * x[2]
            frequency == IF n > 1000 THEN 25 ELSE IF n > 500 THEN 20
                         ELSE IF n > 200 THEN 15 ELSE IF n > 100 THEN 10
                         ELSE IF n > 50 THEN 7 ELSE 3
            intensity == IF above(b, 350) THEN 20 ELSE IF above(b, 342) THEN 15
                         ELSE IF above(b, 335) THEN 10 ELSE IF above(b, 330) THEN 6
                         ELSE 3
            frp == IF above(f, 15) THEN 15 ELSE IF above(f, 10) THEN 10
                   ELSE IF above(f, 6) THEN 6 ELSE 3
            recurrence == IF y >= 5 THEN 15 ELSE IF y >= 4 THEN 12
                          ELSE IF y >= 3 THEN 8 ELSE IF y >= 2 THEN 5 ELSE 2
            cover == IF d = None THEN 0
                     ELSE IF d[1].forest_cover > 55 THEN 12
                     ELSE IF d[1].forest_cover > 40 THEN 8
                     ELSE IF d[1].forest_cover > 25 THEN 4 ELSE 0
            land == cover - (IF d # None /\ d[1].urban THEN 10 ELSE 0)
            seasonal == IF m \in {3, 4, 5} THEN 120 ELSE IF m \in {2, 6} THEN 108
                        ELSE IF m \in {11, 12, 1} THEN 88 ELSE 82
            product == (30 + frequency + intensity + frp + recurrence + land) * seasonal
            expected == IF product < 800 THEN 800 ELSE IF product > 9500 THEN 9500
                        ELSE product
            scored == CalculateRiskScore(op.args.location_stats, d, m)
        IN  /\ land >= -10 /\ land <= 12
            /\ d = None => land = 0
            /\ scored[1] = expected
            /\ scored[3] = st.primary_cause
            /\ model = None => op.out.risk_score = 100 * expected

\* C18 witness: a shoulder month, an urban descriptor and an unclamped score
\* in which every term is above its lowest tier.
C18_Witness ==
    /\ HasScore
    /\ model = None
    /\ op.args.location_stats # None
    /\ op.args.current_month = 6
    /\ op.args.district_info = Some(District(56, TRUE))
    /\ op.args.location_stats[1].fire_count = 201
    /\ op.args.location_stats[1].avg_brightness = <<685, 2>>
    /\ op.args.location_stats[1].avg_frp = <<13, 2>>
    /\ op.args.location_stats[1].years_with_fires = 3
    /\ op.out.risk_score = 100 * 108 * (30 + 15 + 15 + 6 + 8 + 2)

\* A classifier and an encoder are loaded, stats are non-null, the encoder
\* knows the region label and predict_proba answered.
InferenceSucceeded ==
    /\ HasScore
    /\ model # None /\ encoder # None /\ op.args.location_stats # None
    /\ op.args.region_name \in encoder[1]
    /\ op.args.infer # None

\* C19: predict_risk returns 0.65 * heuristic + 0.35 * (maximum class
\* probability) exactly when classifier and encoder are loaded, stats are
\* non-null and inference succeeds; otherwise the unmodified heuristic score.
\* (Scores in 10^-6, the heuristic in 10^-4, the probability in hundredths.)
C19_BlendExactlyOnSuccess ==
    HasScore =>
        LET heuristic == CalculateRiskScore(op.args.location_stats,
                                            op.args.district_info,
                                            op.args.current_month)[1]
        IN  op.out.risk_score =
                IF InferenceSucceeded
                THEN 65 * heuristic + 35 * 100 * op.args.infer[1]
                ELSE 100 * heuristic

\* C19 witness: a blended score that differs from the heuristic one.
C19_Witness ==
    /\ InferenceSucceeded
    /\ op.args.infer = Some(50)
    /\ op.args.current_month = 8
    /\ op.out.risk_score # 100 * CalculateRiskScore(op.args.location_stats,
                                                    op.args.district_info,
                                                    op.args.current_month)[1]

\* C20: the level predict_risk returns agrees with the score returned with
\* it (High iff score >= 0.65, Moderate iff 0.40 <= score < 0.65, Low iff
\* score < 0.40), also when the score was blended with the classifier.
C20_LevelAgreesWithScore ==
    HasScore =>
        /\ (op.out.risk_level = "High") <=> (op.out.risk_score >= 650000)
        /\ (op.out.risk_level = "Moderate")
              <=> (op.out.risk_score >= 400000 /\ op.out.risk_score < 650000)
        /\ (op.out.risk_level = "Low") <=> (op.out.risk_score < 400000)

\* C21: for non-null stats the ignition probability is
\* clamp(trunc((15 + density + brightness + recurrence + frp) * m) + bonus,
\* 5, 92): the seasonal multiplier (none in October) applies to the sum and
\* is truncated before the regional bonus is added, the clamp comes last,
\* and the level is High iff the clamped value >= 55, Moderate iff it is in
\* [30, 54], Low otherwise.  The tiers are those of the specification.
C21_IgnitionFormula ==
    (op.name = "ignition" /\ op.args.location_stats # None) =>
        LET st == op.args.location_stats[1]
            m == op.args.current_month
            region == op.args.region_name
            above(x, p, q) == x # <<>> /\ x[1] * q > p * x[2]
            density == IF above(st.fire_density, 3, 1) THEN 28
                       ELSE IF above(st.fire_density, 3, 2) THEN 18
                       ELSE IF above(st.fire_density, 1, 2) THEN 10 ELSE 3
            brightness == IF above(st.avg_brightness, 348, 1) THEN 15
                          ELSE IF above(st.avg_brightness, 340, 1) THEN 10
                          ELSE IF above(st.avg_brightness, 333, 1) THEN 5 ELSE 0
            recurrence == IF st.years_with_fires >= 5 THEN 12
                          ELSE IF st.years_with_fires >= 3 THEN 7
                          ELSE IF st.years_with_fires >= 2 THEN 4 ELSE 0
            frp == IF above(st.avg_frp, 12, 1) THEN 8
                   ELSE IF above(st.avg_frp, 7, 1) THEN 4 ELSE 0
            sum == 15 + density + brightness + recurrence + frp
            percent == IF m \in {3, 4, 5} THEN 125 ELSE IF m \in {2, 6} THEN 110
                       ELSE IF m \in {7, 8, 9} THEN 70
                       ELSE IF m \in {11, 12, 1} THEN 85 ELSE 100
            bonus == IF region = "Terai Plains" THEN 6
                     ELSE IF region = "Mahabharat Range (Hills)" THEN 10
                     ELSE IF region = "High Himalayas" THEN 4 ELSE 0
            unclamped == ((sum * percent) \div 100) + bonus
            expected == IF unclamped < 5 THEN 5 ELSE IF unclamped > 92 THEN 92
                        ELSE unclamped
        IN  /\ op.out.probability = expected
            /\ (op.out.level = "High") <=> (expected >= 55)
            /\ (op.out.level = "Moderate") <=> (expected >= 30 /\ expected <= 54)
            /\ (op.out.level = "Low") <=> (expected < 30)

\* C21 witness: the sum 15 + 10 + 10 + 4 + 4 = 43 in a shoulder month is
\* 47.3, truncated to 47 before the Hills bonus of 10 makes it 57 (High).
C21_Witness ==
    /\ op.name = "ignition"
    /\ op.args.location_stats # None
    /\ op.args.current_month = 6
    /\ op.args.region_name = Hills
    /\ op.args.location_stats[1].fire_density = <<51, 100>>
    /\ op.args.location_stats[1].avg_brightness = <<681, 2>>
    /\ op.args.location_stats[1].years_with_fires = 2
    /\ op.args.location_stats[1].avg_frp = <<15, 2>>
    /\ op.out.probability = 57
    /\ op.out.level = "High"

\* The template texts of the mentions of a reason, in order.
MentionTexts(reason) == [i \in DOMAIN reason |-> reason[i].text]

\* C22: the reason is the sequence of the mentions whose conditions hold, in
\* the order count (fire_count > 0), years (> 1), density tier (> 2 or
\* > 0.5), intensity pattern (> 345 or > 338), modal cause (not 'Unknown'),
\* region boilerplate (one of the three zones); the fallback sentence is
\* emitted iff none holds, and then alone.  Null stats count as 0 fires,
\* 0 years, density 0, brightness 330 and cause 'Unknown'.
C22_ReasonMentionsInOrder ==
    HasScore =>
        LET has == op.args.location_stats # None
            st == op.args.location_stats[1]
            region == op.args.region_name
            above(x, p, q) == x[1] * q > p * x[2]
            count == IF has /\ st.fire_count > 0
                     THEN <<"Analysis of {fire_count:,} historical fire events from NASA VIIRS satellite data">>
                     ELSE <<>>
            years == IF has /\ st.years_with_fires > 1
                     THEN <<"with fires recorded across {years_with_fires} different years">>
                     ELSE <<>>
            density == IF has /\ above(st.fire_density, 2, 1)
                       THEN <<"shows high fire density ({fire_density:.1f} fires per 100 km2)">>
                       ELSE IF has /\ above(st.fire_density, 1, 2)
                       THEN <<"indicates moderate fire activity ({fire_density:.1f} fires per 100 km2)">>
                       ELSE <<>>
            pattern == IF has /\ above(st.avg_brightness, 345, 1)
                       THEN <<"with high-intensity fire patterns detected">>
                       ELSE IF has /\ above(st.avg_brightness, 338, 1)
                       THEN <<"showing moderate intensity fire activity">>
                       ELSE <<>>
            cause == IF has /\ st.primary_cause # "Unknown"
                     THEN <<"Primary ignition source: {primary_cause}">>
                     ELSE <<>>
            zone == IF region = "Terai Plains"
                    THEN <<"Agricultural practices and dry seasonal conditions in the Terai region contribute to elevated fire risk during dry months.">>
                    ELSE IF region = "Mahabharat Range (Hills)"
                    THEN <<"Chir pine forests with accumulated dry needles create significant fuel load in the hill region, especially during pre-monsoon months.">>
                    ELSE IF region = "High Himalayas"
                    THEN <<"Alpine vegetation and strong winds during dry season combined with limited firefighting access create fire-prone conditions in the Himalayan zone.">>
                    ELSE <<>>
            mentions == count \o years \o density \o pattern \o cause \o zone
            fallback == "Risk assessment based on regional fire patterns and NASA satellite monitoring data."
            texts == MentionTexts(op.out.reason)
        IN  /\ mentions # <<>> => texts = mentions
            /\ mentions = <<>> => texts = <<fallback>>
            /\ (\E i \in DOMAIN texts : texts[i] = fallback) <=> mentions = <<>>
            /\ has /\ st.primary_cause # "Unknown" =>
                  \E i \in DOMAIN op.out.reason : op.out.reason[i].label = st.primary_cause

\* C22 witness: all six mentions at once, in their order.
C22_Witness ==
    /\ HasScore
    /\ op.args.location_stats # None
    /\ op.args.region_name = Himalaya
    /\ Len(op.out.reason) = 6
    /\ op.out.reason[3].text = "indicates moderate fire activity ({fire_density:.1f} fires per 100 km2)"
    /\ op.out.reason[4].text = "showing moderate intensity fire activity"
    /\ op.out.reason[5].label = Agricultural

\* The rows of an archive file that have latitude, longitude and brightness.
CompleteRows(file) ==
    {i \in DOMAIN file : file[i].latitude # <<>> /\ file[i].longitude # <<>>
                         /\ file[i].brightness # <<>>}

\* The events of the loaded archive whose grid key is k.
EventsWithKey(k) ==
    {i \in DOMAIN fire_data[1] :
        GetGridKey(fire_data[1][i].latitude, fire_data[1][i].longitude) = k}

\* C23: after any sequence of load_resources calls the index holds exactly
\* one cell per distinct grid key among the events of the loaded archive,
\* each cell's fire_count is the number of events with that key (so the
\* counts sum to the archive size), rows missing latitude, longitude or
\* brightness are in no cell, and the index is empty with no archive loaded.
C23_IndexMatchesArchive ==
    /\ fire_data = None => DOMAIN location_stats_cache = {}
    /\ fire_data # None =>
          /\ DOMAIN location_stats_cache =
                {GetGridKey(fire_data[1][i].latitude, fire_data[1][i].longitude) :
                    i \in DOMAIN fire_data[1]}
          /\ \A k \in DOMAIN location_stats_cache :
                location_stats_cache[k].fire_count = Cardinality(EventsWithKey(k))
          /\ op.name = "load_resources" =>
                Len(fire_data[1]) = Cardinality(CompleteRows(op.args[1][1]))

\* The archive rows a resolve result aggregates: the events of the query's
\* cell on the fast path, the events inside the bounding box on the scan path.
ResolvedGroup ==
    IF FastPath THEN EventsWithKey(GetGridKey(op.args.lat, op.args.lon))
    ELSE RowsWithin(op.args.lat, op.args.lon, op.args.radius_km)

\* Number of rows of the group carrying cause label c.
GroupCount(c) ==
    Cardinality({i \in ResolvedGroup : fire_data[1][i].likely_cause = <<c>>})

\* The labels with the maximal number of occurrences in the group.
GroupModes ==
    {c \in {Agricultural, PineNeedles, "Unknown"} :
        /\ GroupCount(c) > 0
        /\ \A d \in {Agricultural, PineNeedles, "Unknown"} : GroupCount(d) <= GroupCount(c)}

\* Position in the archive of the first row of the group with label c.
FirstSeen(c) ==
    CHOOSE i \in ResolvedGroup :
        /\ fire_data[1][i].likely_cause = <<c>>
        /\ \A j \in ResolvedGroup : fire_data[1][j].likely_cause = <<c>> => i <= j

ResolvedStats == op.name = "resolve" /\ ~op.raised /\ op.out # None

\* C24 as stated: the modal cause resolve returns (from the cell or from the
\* scan) is a label with the maximal number of occurrences in the group, and
\* among tied labels it is the one met first in archive order.
C24_ModalCauseFirstEncountered ==
    ResolvedStats =>
        /\ op.out[1].primary_cause \in GroupModes
        /\ \A d \in GroupModes : FirstSeen(op.out[1].primary_cause) <= FirstSeen(d)

\* C24 amended: the modal cause is a label with the maximal number of
\* occurrences in the group, and among tied labels it is the first one in
\* sorted (lexicographic) order, whatever the order of the archive rows.
C24_ModalCauseSortedTie ==
    ResolvedStats =>
        /\ op.out[1].primary_cause \in GroupModes
        /\ \A d \in GroupModes : CauseRank(op.out[1].primary_cause) <= CauseRank(d)

\* C24 witness: a cell whose two labels tie, the archive listing the
\* lexicographically larger one first, resolved on the fast path.
C24_Witness ==
    /\ ResolvedStats
    /\ FastPath
    /\ GroupModes = {Agricultural, PineNeedles}
    /\ FirstSeen(PineNeedles) < FirstSeen(Agricultural)
    /\ op.out[1].primary_cause = Agricultural

\* The matched rows of a history call that returned a summary.
HistoryMatched ==
    RowsWithin(op.args.lat, op.args.lon, op.out[1].search_radius_km)

HistoryDated == {i \in HistoryMatched : fire_data[1][i].acq_date # <<>>}

\* Date a is later than date b (both <<year, month, day>>).
LaterDate(a, b) ==
    \/ a[1] > b[1]
    \/ a[1] = b[1] /\ a[2] > b[2]
    \/ a[1] = b[1] /\ a[2] = b[2] /\ a[3] > b[3]

\* Entry e of the preview is archive row i.
EntryOfRow(e, i) ==
    /\ e.latitude = fire_data[1][i].latitude
    /\ e.longitude = fire_data[1][i].longitude
    /\ e.brightness = fire_data[1][i].brightness
    /\ e.acq_date = fire_data[1][i].acq_date

\* Every entry is a matched row, and no row is listed more often than it
\* occurs among the matched rows.
DrawnFromMatched(recent) ==
    \A p \in DOMAIN recent :
        Cardinality({q \in DOMAIN recent : recent[q] = recent[p]})
            <= Cardinality({i \in HistoryMatched :
                               /\ EntryOfRow(recent[p], i)
                               /\ RecentFire(fire_data[1][i]) = recent[p]})

\* No dated matched row left out is later than a listed dated entry: the
\* rows of a date later than some listed date are all listed.
NoneLaterOmitted(recent) ==
    \A i \in HistoryDated : \A p \in DOMAIN recent :
        (recent[p].acq_date # <<>>
           /\ LaterDate(fire_data[1][i].acq_date[1], recent[p].acq_date[1]))
        => Cardinality({q \in DOMAIN recent : recent[q].acq_date = fire_data[1][i].acq_date})
             = Cardinality({j \in HistoryDated :
                               fire_data[1][j].acq_date = fire_data[1][i].acq_date})

\* C25 as stated: with n matched events that have a valid acquisition date,
\* the recent-events list of a history summary has exactly min(5, n)
\* entries, all matched events, listed from the most recent to the least
\* recent, and no matched event left out is later than a listed one.
C25_RecentFiresLatestFive ==
    (op.name = "history" /\ op.out # None) =>
        LET recent == op.out[1].recent_fires
            n == Cardinality(HistoryDated)
        IN  /\ Len(recent) = Min2(5, n)
            /\ DrawnFromMatched(recent)
            /\ \A p \in 1..(Len(recent) - 1) :
                  /\ recent[p].acq_date # <<>>
                  /\ recent[p + 1].acq_date # <<>>
                  /\ ~LaterDate(recent[p + 1].acq_date[1], recent[p].acq_date[1])
            /\ NoneLaterOmitted(recent)

\* What the preview does satisfy: min(5, matched rows) entries, the dated
\* ones first from the most recent to the least recent, min(5, n) of them,
\* none left out that is later than a listed one, rows without a date last.
RecentFiresDatedFirst ==
    (op.name = "history" /\ op.out # None) =>
        LET recent == op.out[1].recent_fires
            n == Cardinality(HistoryDated)
            k == Min2(5, n)
        IN  /\ Len(recent) = Min2(5, Cardinality(HistoryMatched))
            /\ DrawnFromMatched(recent)
            /\ \A p \in DOMAIN recent : recent[p].acq_date # <<>> <=> p <= k
            /\ \A p \in 1..(k - 1) :
                  ~LaterDate(recent[p + 1].acq_date[1], recent[p].acq_date[1])
            /\ NoneLaterOmitted(recent)

\* More than five dated events matched: five listed, one left out.
RecentFiresOverflow ==
    /\ op.name = "history" /\ op.out # None
    /\ Cardinality(HistoryDated) = 6
    /\ Len(op.out[1].recent_fires) = 5

\* The events of the loaded archive the builder put in the cell of event i
\* (same grid_lat and grid_lon columns).
CellMates(i) ==
    {j \in DOMAIN fire_data[1] :
        /\ fire_data[1][j].grid_lat = fire_data[1][i].grid_lat
        /\ fire_data[1][j].grid_lon = fire_data[1][i].grid_lon}

\* The result r of resolving the coordinate of event i: its key is in the
\* index, no scan was made, and the stats carry the count of its cell.
ResolvedFromOwnCell(r, i) ==
    /\ KeyOf(fire_data[1][i]) \in DOMAIN location_stats_cache
    /\ GetGridKey(fire_data[1][i].latitude, fire_data[1][i].longitude)
          = KeyOf(fire_data[1][i])
    /\ ~r.raised
    /\ r.scans = <<>>
    /\ r.out # None
    /\ r.out[1].fire_count >= 1
    /\ r.out[1].fire_count = Cardinality(CellMates(i))

\* C26: after load_resources has completed, resolving the coordinate of any
\* event of the archive, at any radius, finds the event's grid key in the
\* index, takes the fast path and returns non-null stats whose fire_count
\* is the count (at least 1) of the cell that holds the event.
C26_EventResolvesToItsCell ==
    (status = "ready" /\ fire_data # None) =>
        /\ \A i \in DOMAIN fire_data[1] : \A radius_km \in Radii :
              ResolvedFromOwnCell(
                  GetLocationSpecificStats(fire_data, location_stats_cache,
                                           fire_data[1][i].latitude,
                                           fire_data[1][i].longitude, radius_km), i)
        /\ op.name = "resolve" =>
              \A i \in DOMAIN fire_data[1] :
                  (fire_data[1][i].latitude = op.args.lat
                     /\ fire_data[1][i].longitude = op.args.lon)
                  => ResolvedFromOwnCell(op, i)

\* C26 witness: two events of one cell, at different coordinates; the
\* coordinate of the second has been resolved and the count returned is 2.
C26_Witness ==
    /\ status = "ready" /\ fire_data # None
    /\ op.name = "resolve"
    /\ Len(fire_data[1]) = 2
    /\ fire_data[1][1].latitude # fire_data[1][2].latitude
    /\ fire_data[1][2].latitude = op.args.lat
    /\ fire_data[1][2].longitude = op.args.lon
    /\ ResolvedFromOwnCell(op, 2)
    /\ op.out[1].fire_count = 2

====
